---- MODULE Spec2Model ----
(***************************************************************************)
(* Model of the InfluxDB query API integration: the SecurityValidator      *)
(* (utils.py), the query builder and run_flux_query (influxdb_service.py)  *)
(* and the InfluxDBConnectionManager pool (influxdb_client.py), run as     *)
(* cooperative tasks of one asyncio event loop.                            *)
(*                                                                         *)
(* Python strings are sequences of one-character strings, so that          *)
(* lower(), strip(), replace(), "in" and the regular expressions are       *)
(* computed character by character.                                        *)
(***************************************************************************)
EXTENDS Integers, Sequences, FiniteSets, TLC

(***************************************************************************)
(* Bounds of the model.                                                    *)
(***************************************************************************)
\* handles the backend lets the model create; further creations fail
MaxHandles == 4

\* failures of InfluxDBClient(), ping() and close() the backend injects
MaxFaults == 2

(***************************************************************************)
(* Python string primitives.                                               *)
(***************************************************************************)
Lowers == <<"a","b","c","d","e","f","g","h","i","j","k","l","m","n","o","p","q","r","s","t","u","v","w","x","y","z">>

Uppers == <<"A","B","C","D","E","F","G","H","I","J","K","L","M","N","O","P","Q","R","S","T","U","V","W","X","Y","Z">>

Digits == <<"0","1","2","3","4","5","6","7","8","9">>

Range(s) == {s[i] : i \in 1..Len(s)}

\* str.lower() on one character
LowerChar(c) ==
  IF \E i \in 1..Len(Uppers) : Uppers[i] = c
    THEN Lowers[CHOOSE i \in 1..Len(Uppers) : Uppers[i] = c]
    ELSE c

\* str.lower()
Lower(s) == [i \in 1..Len(s) |-> LowerChar(s[i])]

\* the Python test  sub in s
Contains(s, sub) ==
  \E i \in 0..(Len(s) - Len(sub)) : SubSeq(s, i + 1, i + Len(sub)) = sub

\* characters str.strip() removes
Whitespace == {" ", "\n", "\r", "\t"}

RECURSIVE LStrip(_)
LStrip(s) ==
  IF s # << >> /\ Head(s) \in Whitespace THEN LStrip(Tail(s)) ELSE s

RECURSIVE RStrip(_)
RStrip(s) ==
  IF s # << >> /\ s[Len(s)] \in Whitespace
    THEN RStrip(SubSeq(s, 1, Len(s) - 1))
    ELSE s

\* str.strip()
Strip(s) == RStrip(LStrip(s))

\* str.replace(c, '') for every c of a set of characters, in turn
RemoveChars(s, cs) ==
  LET Kept(c) == c \notin cs IN SelectSeq(s, Kept)

\* index of the first occurrence of c in s (s contains c)
IndexOf(s, c) == CHOOSE i \in 1..Len(s) : s[i] = c /\ \A j \in 1..(i - 1) : s[j] # c

\* re.match of  ^[cls]+$  : "$" also matches before one trailing newline
MatchesClassPlus(s, cls) ==
  /\ s # << >>
  /\ \/ \A i \in 1..Len(s) : s[i] \in cls
     \/ /\ Len(s) >= 2
        /\ s[Len(s)] = "\n"
        /\ \A i \in 1..(Len(s) - 1) : s[i] \in cls

\* the first element of a list that satisfies a test, or << >> when none does
RECURSIVE FirstKeywordIn(_, _)
FirstKeywordIn(kws, s) ==
  IF kws = << >> THEN << >>
  ELSE IF Contains(s, Head(kws)) THEN Head(kws)
  ELSE FirstKeywordIn(Tail(kws), s)

(***************************************************************************)
(* Exceptions and results of the validators.                               *)
(***************************************************************************)
NoError == [type |-> "none", msg |-> << >>]

ValueError(m) == [type |-> "ValueError", msg |-> m]

Ok(v) == [ok |-> TRUE, val |-> v, err |-> NoError]

Raise(e) == [ok |-> FALSE, val |-> << >>, err |-> e]

(***************************************************************************)
(* SecurityValidator (utils.py).                                           *)
(***************************************************************************)
WordChars == Range(Lowers) \cup Range(Uppers) \cup Range(Digits) \cup {"_"}

\* a domain pattern without the upper-case letters
DOMAIN_PATTERN_lower(s) == MatchesClassPlus(s, WordChars \ Range(Uppers))

\* re.compile(r'^[a-zA-Z0-9_]+$')
DOMAIN_PATTERN(s) == MatchesClassPlus(s, WordChars)

ENTITY_PATTERN(s) == MatchesClassPlus(s, WordChars)

BUCKET_PATTERN(s) == MatchesClassPlus(s, WordChars \cup {"-"})

\* the backquote character, which a TLA+ string cannot contain
Backquote == "BACKQUOTE"

\* a character list that lacks the single quote
DANGEROUS_CHARS_unquoted ==
  {"\"", Backquote, "\\", ";", "|", ">", "<", "&", "$", "(", ")", "[", "]",
   "{", "}", "\n", "\r", "\t"}

DANGEROUS_CHARS ==
  {"\"", "'", Backquote, "\\", ";", "|", ">", "<", "&", "$", "(", ")", "[", "]",
   "{", "}", "\n", "\r", "\t"}

MaxIdentifierLen == 100

MaxDomainLen == 50

MaxEntityLen == 100

MaxBucketLen == 100

\* a sanitizer that hands its argument back as it is
sanitize_identifier_unchanged(value) == Ok(value)

sanitize_identifier(value) ==
  IF Strip(value) = << >>
    THEN Raise(ValueError(<<"V","a","l","u","e"," ","c","a","n","n","o","t"," ","b","e"," ","e","m","p","t","y">>))
  ELSE LET sanitized == RemoveChars(Strip(value), DANGEROUS_CHARS) IN
    IF sanitized = << >>
      THEN Raise(ValueError(<<"V","a","l","u","e"," ","b","e","c","a","m","e"," ","e","m","p","t","y"," ","a","f","t","e","r"," ","s","a","n","i","t","i","z","a","t","i","o","n">>))
    ELSE IF Len(sanitized) > MaxIdentifierLen
      THEN Raise(ValueError(<<"V","a","l","u","e"," ","t","o","o"," ","l","o","n","g"," ","a","f","t","e","r"," ","s","a","n","i","t","i","z","a","t","i","o","n"," ","(","m","a","x"," ","1","0","0"," ","c","h","a","r","a","c","t","e","r","s",")">>))
    ELSE Ok(sanitized)

validate_entity_id(entity_id) ==
  IF entity_id = << >>
    THEN Raise(ValueError(<<"I","n","v","a","l","i","d"," ","e","n","t","i","t","y","_","i","d",":"," ","m","u","s","t"," ","b","e"," ","a"," ","n","o","n","-","e","m","p","t","y"," ","s","t","r","i","n","g">>))
  ELSE IF ~ Contains(entity_id, <<".">>)
    THEN Raise(ValueError(<<"I","n","v","a","l","i","d"," ","e","n","t","i","t","y","_","i","d",":"," ","m","u","s","t"," ","c","o","n","t","a","i","n"," ","'",".","'"," ","s","e","p","a","r","a","t","o","r"," ","(","f","o","r","m","a","t",":"," ","d","o","m","a","i","n",".","e","n","t","i","t","y",")">>))
  ELSE LET dot == IndexOf(entity_id, ".")
           domain == SubSeq(entity_id, 1, dot - 1)
           entity == SubSeq(entity_id, dot + 1, Len(entity_id)) IN
    IF domain = << >> \/ ~ DOMAIN_PATTERN(domain)
      THEN Raise(ValueError(<<"I","n","v","a","l","i","d"," ","d","o","m","a","i","n"," ","i","n"," ","e","n","t","i","t","y","_","i","d",":"," ","'">> \o domain
                   \o <<"'","."," ","O","n","l","y"," ","a","l","p","h","a","n","u","m","e","r","i","c"," ","c","h","a","r","a","c","t","e","r","s"," ","a","n","d"," ","u","n","d","e","r","s","c","o","r","e","s"," ","a","l","l","o","w","e","d">>))
    ELSE IF entity = << >> \/ ~ ENTITY_PATTERN(entity)
      THEN Raise(ValueError(<<"I","n","v","a","l","i","d"," ","e","n","t","i","t","y"," ","i","n"," ","e","n","t","i","t","y","_","i","d",":"," ","'">> \o entity
                   \o <<"'","."," ","O","n","l","y"," ","a","l","p","h","a","n","u","m","e","r","i","c"," ","c","h","a","r","a","c","t","e","r","s"," ","a","n","d"," ","u","n","d","e","r","s","c","o","r","e","s"," ","a","l","l","o","w","e","d">>))
    ELSE IF Len(domain) > MaxDomainLen
      THEN Raise(ValueError(<<"D","o","m","a","i","n"," ","t","o","o"," ","l","o","n","g"," ","(","m","a","x"," ","5","0"," ","c","h","a","r","a","c","t","e","r","s",")">>))
    ELSE IF Len(entity) > MaxEntityLen
      THEN Raise(ValueError(<<"E","n","t","i","t","y"," ","t","o","o"," ","l","o","n","g"," ","(","m","a","x"," ","1","0","0"," ","c","h","a","r","a","c","t","e","r","s",")">>))
    ELSE Ok([domain |-> domain, entity |-> entity])

validate_bucket_name(bucket) ==
  IF bucket = << >>
    THEN Raise(ValueError(<<"B","u","c","k","e","t"," ","n","a","m","e"," ","m","u","s","t"," ","b","e"," ","a"," ","n","o","n","-","e","m","p","t","y"," ","s","t","r","i","n","g">>))
  ELSE IF ~ BUCKET_PATTERN(bucket)
    THEN Raise(ValueError(<<"I","n","v","a","l","i","d"," ","b","u","c","k","e","t"," ","n","a","m","e",":"," ","'">> \o bucket
                 \o <<"'","."," ","O","n","l","y"," ","a","l","p","h","a","n","u","m","e","r","i","c"," ","c","h","a","r","a","c","t","e","r","s",","," ","u","n","d","e","r","s","c","o","r","e","s",","," ","a","n","d"," ","h","y","p","h","e","n","s"," ","a","l","l","o","w","e","d">>))
  ELSE IF Len(bucket) > MaxBucketLen
    THEN Raise(ValueError(<<"B","u","c","k","e","t"," ","n","a","m","e"," ","t","o","o"," ","l","o","n","g"," ","(","m","a","x"," ","1","0","0"," ","c","h","a","r","a","c","t","e","r","s",")">>))
  ELSE Ok(bucket)

\* a keyword list that ends before the URL schemes
dangerous_keywords_short ==
  << <<"i","m","p","o","r","t">>, <<"f","r","o","m","(">>, <<"b","u","c","k","e","t","s","(">>, <<"d","r","o","p","(">>, <<"d","e","l","e","t","e","(">>,
     <<"o","r","g","(">>, <<"t","o","k","e","n","(">>, <<"e","x","e","c","(">>, <<"e","v","a","l","(">>, <<"s","y","s","t","e","m","(">> >>

dangerous_keywords ==
  << <<"i","m","p","o","r","t">>, <<"f","r","o","m","(">>, <<"b","u","c","k","e","t","s","(">>, <<"d","r","o","p","(">>, <<"d","e","l","e","t","e","(">>,
     <<"o","r","g","(">>, <<"t","o","k","e","n","(">>, <<"e","x","e","c","(">>, <<"e","v","a","l","(">>, <<"s","y","s","t","e","m","(">>,
     <<"j","a","v","a","s","c","r","i","p","t",":">>, <<"d","a","t","a",":">>, <<"v","b","s","c","r","i","p","t",":">>, <<"f","i","l","e",":">>, <<"f","t","p",":">>,
     <<"h","t","t","p",":">>, <<"h","t","t","p","s",":">> >>

validate_time_range(range_start, range_stop) ==
  IF range_start = << >> \/ range_stop = << >>
    THEN Raise(ValueError(<<"T","i","m","e"," ","r","a","n","g","e"," ","p","a","r","a","m","e","t","e","r","s"," ","c","a","n","n","o","t"," ","b","e"," ","e","m","p","t","y">>))
  ELSE LET inStart == FirstKeywordIn(dangerous_keywords, Lower(range_start))
           inStop == FirstKeywordIn(dangerous_keywords, Lower(range_stop)) IN
    IF inStart # << >>
      THEN Raise(ValueError(<<"P","o","t","e","n","t","i","a","l","l","y"," ","d","a","n","g","e","r","o","u","s"," ","p","a","t","t","e","r","n"," ","d","e","t","e","c","t","e","d"," ","i","n"," ","t","i","m","e"," ","r","a","n","g","e",":"," ">> \o inStart))
    ELSE IF inStop # << >>
      THEN Raise(ValueError(<<"P","o","t","e","n","t","i","a","l","l","y"," ","d","a","n","g","e","r","o","u","s"," ","p","a","t","t","e","r","n"," ","d","e","t","e","c","t","e","d"," ","i","n"," ","t","i","m","e"," ","r","a","n","g","e",":"," ">> \o inStop))
    ELSE Ok([range_start |-> range_start, range_stop |-> range_stop])

\* a Python value that is not one of the validated strings: a str or an int
PyStr(s) == [type |-> "str", val |-> s]

PyInt(n) == [type |-> "int", val |-> n]

\* str.replace(c, r) for a character c
RECURSIVE Replace(_, _, _)
Replace(s, c, r) ==
  IF s = << >> THEN << >>
  ELSE (IF Head(s) = c THEN r ELSE <<Head(s)>>) \o Replace(Tail(s), c, r)

\* escape_value on a str: the replacements of ESCAPE_CHARS, in the order of
\* the dict, each applied to the result of the one before
escape_value(value) ==
  LET e1 == Replace(value, "\"", <<"\\","\"">>)
      e2 == Replace(e1, "'", <<"\\","'">>)
      e3 == Replace(e2, "\\", <<"\\","\\">>)
      e4 == Replace(e3, "\n", <<"\\","n">>)
      e5 == Replace(e4, "\r", <<"\\","r">>)
  IN Replace(e5, "\t", <<"\\","t">>)

\* a dict without keys
EmptyDict == [k \in {} |-> k]

\* validate_query_parameters: params is a dict; the values of entity_id,
\* bucket, range_start and range_stop are strings, every other value is a
\* PyStr or a PyInt
validate_query_parameters(params) ==
  LET keys == DOMAIN params
      has_ent == "entity_id" \in keys
      has_bkt == "bucket" \in keys
      has_rng == "range_start" \in keys /\ "range_stop" \in keys
      ent == IF has_ent THEN validate_entity_id(params.entity_id)
             ELSE Ok([domain |-> <<"x">>, entity |-> <<"x">>])
  IN
  IF ~ ent.ok THEN Raise(ent.err)
  ELSE LET dom == sanitize_identifier(ent.val.domain) IN
  IF ~ dom.ok THEN Raise(dom.err)
  ELSE LET enty == sanitize_identifier(ent.val.entity) IN
  IF ~ enty.ok THEN Raise(enty.err)
  ELSE LET bkt == IF has_bkt THEN validate_bucket_name(params.bucket) ELSE Ok(<< >>) IN
  IF ~ bkt.ok THEN Raise(bkt.err)
  ELSE LET rng == IF has_rng THEN validate_time_range(params.range_start, params.range_stop)
                  ELSE Ok(<< >>) IN
  IF ~ rng.ok THEN Raise(rng.err)
  ELSE LET validated ==
             (IF has_ent THEN [domain |-> dom.val, entity |-> enty.val] ELSE EmptyDict)
               @@ (IF has_bkt THEN [bucket |-> bkt.val] ELSE EmptyDict)
               @@ (IF has_rng THEN [range_start |-> rng.val.range_start,
                                    range_stop |-> rng.val.range_stop]
                   ELSE EmptyDict)
           copied == keys \ (DOMAIN validated \cup {"entity_id", "range_start", "range_stop"})
       IN
       Ok(validated @@ [k \in copied |->
                          IF params[k].type = "str" THEN PyStr(escape_value(params[k].val))
                          ELSE params[k]])

build_safe_filter(domain, entity, field) ==
  LET safe_field == sanitize_identifier(field) IN
  IF ~ safe_field.ok THEN Raise(safe_field.err)
  ELSE Ok(<<"r","[","\"","_","m","e","a","s","u","r","e","m","e","n","t","\"","]"," ","=","="," ","\"">> \o domain
          \o <<"\""," ","a","n","d"," ","r","[","\"","e","n","t","i","t","y","_","i","d","\"","]"," ","=","="," ","\"">> \o entity
          \o <<"\""," ","a","n","d"," ","r","[","\"","_","f","i","e","l","d","\"","]"," ","=","="," ","\"">> \o safe_field.val \o <<"\"">>)

suspicious_keywords ==
  << <<"i","m","p","o","r","t"," ">>, <<"b","u","c","k","e","t","s","(">>, <<"d","r","o","p","(">>, <<"d","e","l","e","t","e","(">>,
     <<"o","r","g","(">>, <<"t","o","k","e","n","(">>, <<"e","x","e","c","(">>, <<"e","v","a","l","(">>, <<"s","y","s","t","e","m","(">>,
     <<"j","a","v","a","s","c","r","i","p","t",":">>, <<"d","a","t","a",":">>, <<"v","b","s","c","r","i","p","t",":">>, <<"f","i","l","e",":">>, <<"f","t","p",":">>,
     <<"d","r","o","p"," ","t","a","b","l","e">>, <<"d","e","l","e","t","e"," ","f","r","o","m">>, <<"i","n","s","e","r","t"," ","i","n","t","o">>, <<"u","p","d","a","t","e"," ","s","e","t">>,
     <<"u","n","i","o","n"," ","s","e","l","e","c","t">>, <<"s","c","r","i","p","t",">">>, <<"<","s","c","r","i","p","t">> >>

check_for_injection_attempts(query) ==
  LET query_lower == Lower(query)
      keywords ==
        IF Contains(query_lower, <<"f","r","o","m","(">>) /\ ~ Contains(query_lower, <<"f","r","o","m","(","b","u","c","k","e","t",":">>)
          THEN Append(suspicious_keywords, <<"f","r","o","m","(">>)
          ELSE suspicious_keywords
  IN FirstKeywordIn(keywords, query_lower) # << >>

(***************************************************************************)
(* Query builder (influxdb_service.py).                                    *)
(***************************************************************************)
\* a template that passes the bounds of the range in the wrong order
QueryTemplateSwapped(bucket, range_start, range_stop, safe_filter) ==
  <<"f","r","o","m","(","b","u","c","k","e","t",":"," ","\"">> \o bucket \o <<"\"",")","\n"," "," "," "," ","|",">"," ","r","a","n","g","e","(","s","t","a","r","t",":"," ">> \o range_stop
    \o <<","," ","s","t","o","p",":"," ">> \o range_start \o <<")","\n"," "," "," "," ","|",">"," ","f","i","l","t","e","r","(","f","n",":"," ","(","r",")"," ","=",">"," ">>
    \o safe_filter \o <<")">>

\* _build_safe_query: the f-string of the three pipeline stages
QueryTemplate(bucket, range_start, range_stop, safe_filter) ==
  <<"f","r","o","m","(","b","u","c","k","e","t",":"," ","\"">> \o bucket \o <<"\"",")","\n"," "," "," "," ","|",">"," ","r","a","n","g","e","(","s","t","a","r","t",":"," ">> \o range_start
    \o <<","," ","s","t","o","p",":"," ">> \o range_stop \o <<")","\n"," "," "," "," ","|",">"," ","f","i","l","t","e","r","(","f","n",":"," ","(","r",")"," ","=",">"," ">>
    \o safe_filter \o <<")">>

build_safe_query(bucket, domain, entity, range_start, range_stop) ==
  LET safe_filter == build_safe_filter(domain, entity, <<"v","a","l","u","e">>) IN
  IF ~ safe_filter.ok THEN Raise(safe_filter.err)
  ELSE LET query == QueryTemplate(bucket, range_start, range_stop, safe_filter.val) IN
    IF check_for_injection_attempts(query)
      THEN Raise(ValueError(<<"P","o","t","e","n","t","i","a","l","l","y"," ","d","a","n","g","e","r","o","u","s"," ","q","u","e","r","y"," ","d","e","t","e","c","t","e","d"," ","a","f","t","e","r"," ","c","o","n","s","t","r","u","c","t","i","o","n">>))
      ELSE Ok(query)

(***************************************************************************)
(* The backend, as the code sees it: every InfluxDBClient() construction,  *)
(* ping(), query() and close() either returns or raises.                   *)
(***************************************************************************)
Exception(m) == [type |-> "Exception", msg |-> m]

InfluxDBError(m) == [type |-> "InfluxDBError", msg |-> m]

RuntimeError(m) == [type |-> "RuntimeError", msg |-> m]

TypeError(m) == [type |-> "TypeError", msg |-> m]

\* messages a backend failure may carry
MsgConnection == <<"C","o","n","n","e","c","t","i","o","n"," ","r","e","f","u","s","e","d">>

MsgTimeout == <<"Q","u","e","r","y"," ","t","i","m","e","o","u","t">>

MsgSyntax == <<"i","n","v","a","l","i","d"," ","q","u","e","r","y"," ","s","y","n","t","a","x">>

MsgUrl == <<"F","a","i","l","e","d"," ","t","o"," ","p","a","r","s","e"," ","u","r","l">>

\* what InfluxDBClient(...) may raise
CreateErrors == {Exception(MsgConnection), Exception(MsgSyntax), ValueError(MsgUrl)}

\* what client.query_api().query(query) may raise
QueryErrors ==
  {InfluxDBError(MsgConnection), InfluxDBError(MsgTimeout), InfluxDBError(MsgSyntax),
   Exception(MsgConnection), Exception(MsgTimeout)}

\* what the body of a direct  async with manager.get_client()  may raise
BodyErrors == {Exception(MsgConnection), Exception(MsgSyntax)}

\* what query() may return: a list of tables, each a list of records
QueryResults ==
  { << >>,
    << <<[time |-> 1, value |-> "on"], [time |-> 2, value |-> 7]>>,
       << >>,
       <<[time |-> 3, value |-> TRUE]>> >> }

(***************************************************************************)
(* Configurations and request inputs.                                      *)
(***************************************************************************)
ConfA == [has_bucket |-> TRUE, bucket |-> <<"h","a">>, pool_size |-> 1, max_retries |-> 1]

ConfB == [has_bucket |-> TRUE, bucket |-> <<"h","a">>, pool_size |-> 2, max_retries |-> 2]

\* a configuration without the bucket key
ConfNoBucket == [has_bucket |-> FALSE, bucket |-> << >>, pool_size |-> 2, max_retries |-> 1]

Configs == {ConfA, ConfB, ConfNoBucket}

\* conf.get("bucket", "")
conf_get_bucket(c) == IF c.has_bucket THEN c.bucket ELSE << >>

Request(c, e, rs) ==
  [conf |-> c, entity_id |-> e, range_start |-> rs, range_stop |-> <<"n","o","w","(",")">>]

\* the calls of run_flux_query the model makes
Requests ==
  { Request(ConfA, <<"s",".","t">>, <<"-","1","h">>),
    Request(ConfB, <<"s",".","t">>, <<"-","1","h">>),
    Request(ConfA, <<"s",".","t","'">>, <<"-","1","h">>),
    Request(ConfA, <<"s","t">>, <<"-","1","h">>),
    Request(ConfA, <<"s",".","t">>, <<"e","x","e","c","(">>),
    Request(ConfA, <<"s",".","t">>, <<"D","R","O","P"," ","T","A","B","L","E"," ","m">>),
    Request(ConfNoBucket, <<"s",".","t">>, <<"-","1","h">>) }

\* two concurrent callers share the event loop
Tasks == {1, 2}

\* a call constructs at most one manager instance
Managers == Tasks

Handles == 1..MaxHandles

VARIABLES
  running,             \* the task the event loop is executing, 0 when idle
  pc,                  \* where each task is
  kind,                \* "query": run_flux_query; "scope": async with get_client()
  inp,                 \* the arguments of the task's call
  vparams,             \* validated_params of run_flux_query
  mgr,                 \* the manager instance the task uses
  frames,              \* the nested get_client() scopes of the task, innermost last
  exc,                 \* the exception in flight, then the one the call raised
  ret,                 \* the value returned
  connection_manager,  \* the global _connection_manager, 0 for None
  nmgr,                \* manager instances constructed so far
  pool_size,           \* self.pool_size of each manager
  max_retries,         \* self.max_retries of each manager
  connection_pool,     \* self._connection_pool: a FIFO queue, maxsize pool_size
  active_connections,  \* self._active_connections
  initialized,         \* self._initialized
  lock,                \* holder of self._lock, 0 when free
  init_i,              \* loop index of _initialize_pool
  closed,              \* clients on which close() has been called
  overflow,            \* history: clients created by an acquire that found the pool empty
  ops,                 \* history: backend operations made on behalf of a task
  subs,                \* history: the query submissions of a task
  acq_failed,          \* history: an acquire of the task raised
  eq_out,              \* history: how the outermost execute_query ended
  hist                 \* history: flags about the run so far

taskVars == <<running, pc, kind, inp, vparams, mgr, frames, exc, ret>>

mgrVars == <<connection_manager, nmgr, pool_size, max_retries, connection_pool,
             active_connections, initialized, lock, init_i>>

handleVars == <<closed, overflow>>

histVars == <<ops, subs, acq_failed, eq_out, hist>>

vars == <<taskVars, mgrVars, handleVars, histVars>>

None == [kind |-> "None", val |-> << >>]

Unset == [kind |-> "unset", val |-> << >>]

List(v) == [kind |-> "list", val |-> v]

\* no submission yet.  n counts the submissions, ok_at is the number of the
\* first one that returned (0: none), tables what it returned, last_err the
\* latest error raised and all_retryable tells that every error raised so
\* far was a retryable backend error
NoSubs == [n |-> 0, ok_at |-> 0, tables |-> << >>, last_err |-> NoError,
           all_retryable |-> TRUE]

\* the errors the retry logic is meant for: a backend error whose text has
\* one of the retryable keywords
RetryableBackendErrors == {InfluxDBError(MsgConnection), InfluxDBError(MsgTimeout)}

\* a submission returned tables
SubReturned(s, tables) ==
  [s EXCEPT !.n = @ + 1,
            !.ok_at = IF @ = 0 THEN s.n + 1 ELSE @,
            !.tables = IF s.ok_at = 0 THEN tables ELSE @]

\* a submission raised e
SubRaised(s, e) ==
  [s EXCEPT !.n = @ + 1,
            !.last_err = e,
            !.all_retryable = @ /\ e \in RetryableBackendErrors]

\* a backend failure is injected only while the budget lasts; a creation
\* beyond MaxHandles live clients always fails
MayFail == hist.faults < MaxFaults

Fault(h) == [h EXCEPT !.faults = IF @ < MaxFaults THEN @ + 1 ELSE @]

NoInput == [conf |-> [has_bucket |-> FALSE, bucket |-> << >>, pool_size |-> 0, max_retries |-> 0],
            entity_id |-> << >>, range_start |-> << >>, range_stop |-> << >>]

NoParams == [domain |-> << >>, entity |-> << >>, bucket |-> << >>,
             range_start |-> << >>, range_stop |-> << >>]

Init ==
  /\ running = 0
  /\ pc = [t \in Tasks |-> "new"]
  /\ kind = [t \in Tasks |-> "none"]
  /\ inp = [t \in Tasks |-> NoInput]
  /\ vparams = [t \in Tasks |-> NoParams]
  /\ mgr = [t \in Tasks |-> 0]
  /\ frames = [t \in Tasks |-> << >>]
  /\ exc = [t \in Tasks |-> NoError]
  /\ ret = [t \in Tasks |-> Unset]
  /\ connection_manager = 0
  /\ nmgr = 0
  /\ pool_size = [m \in Managers |-> 0]
  /\ max_retries = [m \in Managers |-> 0]
  /\ connection_pool = [m \in Managers |-> << >>]
  /\ active_connections = [m \in Managers |-> {}]
  /\ initialized = [m \in Managers |-> FALSE]
  /\ lock = [m \in Managers |-> 0]
  /\ init_i = [m \in Managers |-> 0]
  /\ closed = {}
  /\ overflow = {}
  /\ ops = [t \in Tasks |-> {}]
  /\ subs = [t \in Tasks |-> NoSubs]
  /\ acq_failed = [t \in Tasks |-> FALSE]
  /\ eq_out = [t \in Tasks |-> [done |-> FALSE, exc |-> NoError, ret |-> Unset]]
  /\ hist = [cleaned |-> {}, cleanfail |-> {}, overflow |-> {}, init_ok |-> {}, faults |-> 0]

(***************************************************************************)
(* Pure pieces of influxdb_service.py and influxdb_client.py.              *)
(***************************************************************************)
\* str(n) of a natural number
RECURSIVE Str(_)
Str(n) == IF n < 10 THEN <<Digits[n + 1]>> ELSE Str(n \div 10) \o <<Digits[(n % 10) + 1]>>

\* a run_flux_query with the generic except clause only
run_flux_query_except_generic(e) == Exception(<<"Q","u","e","r","y"," ","e","x","e","c","u","t","i","o","n"," ","f","a","i","l","e","d",":"," ">> \o e.msg)

\* the two except clauses that end run_flux_query
run_flux_query_except(e) ==
  IF e.type = "ValueError"
    THEN ValueError(<<"I","n","p","u","t"," ","v","a","l","i","d","a","t","i","o","n"," ","f","a","i","l","e","d",":"," ">> \o e.msg)
    ELSE Exception(<<"Q","u","e","r","y"," ","e","x","e","c","u","t","i","o","n"," ","f","a","i","l","e","d",":"," ">> \o e.msg)

\* run_flux_query after  result = await manager.execute_query(query) :
\* len(result) is evaluated for the log line before result is returned
run_flux_query_finish(e, r) ==
  IF e # NoError THEN [exc |-> run_flux_query_except(e), ret |-> Unset]
  ELSE IF r.kind # "list"
    THEN [exc |-> run_flux_query_except(
                    TypeError(<<"o","b","j","e","c","t"," ","o","f"," ","t","y","p","e"," ","'","N","o","n","e","T","y","p","e","'"," ","h","a","s"," ","n","o"," ","l","e","n","(",")">>)),
          ret |-> Unset]
  ELSE [exc |-> NoError, ret |-> r]

\* a keyword list that lacks the gateway status codes
retryable_errors_short ==
  << <<"c","o","n","n","e","c","t","i","o","n">>, <<"t","i","m","e","o","u","t">>, <<"n","e","t","w","o","r","k">>, <<"u","n","a","v","a","i","l","a","b","l","e">>, <<"t","e","m","p","o","r","a","r","y">> >>

retryable_errors ==
  << <<"c","o","n","n","e","c","t","i","o","n">>, <<"t","i","m","e","o","u","t">>, <<"n","e","t","w","o","r","k">>, <<"u","n","a","v","a","i","l","a","b","l","e">>, <<"t","e","m","p","o","r","a","r","y">>,
     <<"5","0","2">>, <<"5","0","3">>, <<"5","0","4">> >>

should_retry(msg) == FirstKeywordIn(retryable_errors, Lower(msg)) # << >>

\* a retry test that gives up one attempt early
RetryAllowedOneLess(retry_count, maxr, msg) == retry_count < maxr - 1 /\ should_retry(msg)

\* execute_query: retry only below max_retries and only a retryable error
RetryAllowed(retry_count, maxr, msg) == retry_count < maxr /\ should_retry(msg)

\* get_client, except clause: "connection" in str(e).lower() ends the
\* generator with a plain return instead of re-raising
ReturnsInsteadOfRaising(msg) == Contains(Lower(msg), <<"c","o","n","n","e","c","t","i","o","n">>)

\* record.get_time().isoformat()
isoformat(time) == <<"iso", time>>

RECURSIVE Flatten(_)
\* a result loop that reads the first table only
FirstTableOnly(tables) == IF tables = << >> THEN << >> ELSE Head(tables)

\* execute_query: for table in tables: for record in table.records
Flatten(tables) ==
  IF tables = << >> THEN << >> ELSE Head(tables) \o Flatten(Tail(tables))

\* execute_query: the result list built from the tables
ResultList(tables) ==
  LET recs == Flatten(tables) IN
  [i \in 1..Len(recs) |-> [time |-> isoformat(recs[i].time), value |-> recs[i].value]]

\* a queue without a maxsize
QueueNeverFull(q, n) == FALSE

\* Queue.full() of a queue of maxsize n
QueueFull(q, n) == Len(q) >= n

\* a get without a timeout
GetNeverTimesOut(q) == FALSE

\* Queue.get(timeout=5) raises Empty when nothing is queued for the whole wait;
\* the wait blocks the event loop, so nothing is queued meanwhile
GetTimesOut(q) == q = << >>

\* Queue.get: the item handed out
QueueHead(q) == Head(q)

\* a get that leaves the item queued
QueueUnchanged(q) == q

\* Queue.get: the queue left behind
QueueRest(q) == Tail(q)

\* a discard that removes nothing
DiscardNothing(S, h) == S

\* set.discard
Discard(S, h) == S \ {h}

\* a release that lets the failure of close() through
ReleasePropagates(close_raised) ==
  IF close_raised THEN Exception(<<"c","l","o","s","e"," ","f","a","i","l","e","d">>) ELSE NoError

\* get_client, finally clause: what the release raises to the caller when
\* close() raised; the handlers at lines 150-155 absorb it
ReleaseRaises(close_raised) == NoError

\* clients some queue, set or scope still refers to
Referenced(fr, pools, act) ==
  UNION {Range(pools[m]) \cup act[m] : m \in Managers}
    \cup UNION {{fr[t][i].client, fr[t][i].pinged, fr[t][i].failed} :
                 <<t, i>> \in {<<u, j>> \in Tasks \X (1..MaxHandles + 2) : j <= Len(fr[u])}}

\* clients the model knows: an identity is reused once nothing refers to it
Known == Referenced(frames, connection_pool, active_connections) \cup closed \cup overflow

\* the backend can still construct a client
CanCreate == Handles \ Known # {}

\* the identity of the client the next InfluxDBClient() constructs
Fresh == CHOOSE h \in Handles \ Known : \A g \in Handles \ Known : h <= g

\* what is left of a history set once unreferenced clients are forgotten
Forget(S, fr, pools, act) == S \cap Referenced(fr, pools, act)

\* Client objects are told apart by identity only, so a state is kept up to
\* the names of its clients.  When the event loop switches tasks the clients
\* still referred to are renamed 1, 2, ... in the order of the idle queues,
\* then of the scopes, then of their old names.
FrameClients(fs) == [i \in 1..Len(fs) |-> fs[i].client]

RenameOrder(fr, pools) ==
  pools[1] \o pools[2] \o FrameClients(fr[1]) \o FrameClients(fr[2])

RenameKey(h, order) ==
  IF \E i \in 1..Len(order) : order[i] = h
    THEN CHOOSE i \in 1..Len(order) : order[i] = h /\ \A j \in 1..(i - 1) : order[j] # h
    ELSE Len(order) + h

Renaming(fr, pools, act) ==
  LET order == RenameOrder(fr, pools)
      ref == Referenced(fr, pools, act) \ {0}
  IN [h \in Handles \cup {0} |->
        IF h \in ref
          THEN Cardinality({g \in ref : RenameKey(g, order) < RenameKey(h, order)}) + 1
          ELSE 0]

\* the next state has scopes fr, and its clients are renamed; unreferenced
\* clients are forgotten
Renamed(fr) ==
  LET c == Renaming(fr, connection_pool, active_connections) IN
  /\ frames' = [t \in Tasks |-> [i \in 1..Len(fr[t]) |->
                  [fr[t][i] EXCEPT !.client = c[@], !.pinged = c[@], !.failed = c[@]]]]
  /\ connection_pool' = [m \in Managers |->
                          [i \in 1..Len(connection_pool[m]) |-> c[connection_pool[m][i]]]]
  /\ active_connections' = [m \in Managers |-> {c[h] : h \in active_connections[m]}]
  /\ closed' = {c[h] : h \in Forget(closed, fr, connection_pool, active_connections)}
  /\ overflow' = {c[h] : h \in Forget(overflow, fr, connection_pool, active_connections)}

NewFrame == [client |-> 0, yielded |-> FALSE, exhausted |-> FALSE, pinged |-> 0, failed |-> 0]

Top(t) == frames[t][Len(frames[t])]

SetTop(t, f) == [frames EXCEPT ![t] = [@ EXCEPT ![Len(@)] = f]]

retry_count(t) == Len(frames[t]) - 1

(***************************************************************************)
(* run_flux_query (influxdb_service.py).  A coroutine runs without         *)
(* interruption up to its next suspension: the only suspensions are the    *)
(* backoff sleep of execute_query and the body of a direct get_client()    *)
(* scope.                                                                  *)
(***************************************************************************)
\* tasks are interchangeable: they start in the order of their numbers
MayStart(t) ==
  /\ running = 0
  /\ pc[t] = "new"
  /\ \A u \in 1..(t - 1) : pc[u] # "new"

\* a call starts: the parameters are validated first
RunFluxQuery(t, rq) ==
  /\ MayStart(t)
  /\ running' = t
  /\ kind' = [kind EXCEPT ![t] = "query"]
  /\ inp' = [inp EXCEPT ![t] = rq]
  /\ LET v == validate_query_parameters(
                [entity_id |-> rq.entity_id, bucket |-> conf_get_bucket(rq.conf),
                 range_start |-> rq.range_start, range_stop |-> rq.range_stop]) IN
     IF v.ok
       THEN /\ vparams' = [vparams EXCEPT ![t] = v.val]
            /\ pc' = [pc EXCEPT ![t] = "getmgr"]
            /\ exc' = exc
       ELSE /\ vparams' = vparams
            /\ pc' = [pc EXCEPT ![t] = "done"]
            /\ exc' = [exc EXCEPT ![t] = run_flux_query_except(v.err)]
  /\ Renamed(frames)
  /\ UNCHANGED <<mgr, ret, connection_manager, nmgr, pool_size, max_retries,
                 initialized, lock, init_i, histVars>>

\* a direct user of the pool:  async with manager.get_client() as client
StartScope(t, c) ==
  /\ MayStart(t)
  /\ kind' = [kind EXCEPT ![t] = "scope"]
  /\ inp' = [inp EXCEPT ![t] = [NoInput EXCEPT !.conf = c]]
  /\ pc' = [pc EXCEPT ![t] = "getmgr"]
  /\ running' = t
  /\ Renamed(frames)
  /\ UNCHANGED <<vparams, mgr, exc, ret, connection_manager, nmgr, pool_size, max_retries,
                 initialized, lock, init_i, histVars>>

\* a test of the global that always asks for a new instance
AlwaysNoManager == TRUE

\* get_connection_manager: _connection_manager is None
NoManagerYet == connection_manager = 0

\* get_connection_manager(conf)
GetConnectionManager(t) ==
  /\ running = t
  /\ pc[t] = "getmgr"
  /\ IF NoManagerYet
       THEN /\ nmgr' = nmgr + 1
            /\ connection_manager' = nmgr + 1
            /\ pool_size' = [pool_size EXCEPT ![nmgr + 1] = inp[t].conf.pool_size]
            /\ max_retries' = [max_retries EXCEPT ![nmgr + 1] = inp[t].conf.max_retries]
       ELSE UNCHANGED <<nmgr, connection_manager, pool_size, max_retries>>
  /\ mgr' = [mgr EXCEPT ![t] = connection_manager']
  /\ IF kind[t] = "query"
       THEN /\ pc' = [pc EXCEPT ![t] = "build"]
            /\ frames' = frames
       ELSE /\ pc' = [pc EXCEPT ![t] = "gc_init"]
            /\ frames' = [frames EXCEPT ![t] = <<NewFrame>>]
  /\ UNCHANGED <<running, kind, inp, vparams, exc, ret, connection_pool,
                 active_connections, initialized, lock, init_i, handleVars, histVars>>

\* _build_safe_query, then the call of manager.execute_query(query)
BuildSafeQuery(t) ==
  /\ running = t
  /\ pc[t] = "build"
  /\ LET p == vparams[t]
         q == build_safe_query(p.bucket, p.domain, p.entity, p.range_start, p.range_stop) IN
     IF q.ok
       THEN /\ frames' = [frames EXCEPT ![t] = <<NewFrame>>]
            /\ pc' = [pc EXCEPT ![t] = "gc_init"]
            /\ UNCHANGED <<running, exc>>
       ELSE /\ exc' = [exc EXCEPT ![t] = run_flux_query_except(q.err)]
            /\ pc' = [pc EXCEPT ![t] = "done"]
            /\ running' = running
            /\ frames' = frames
  /\ UNCHANGED <<kind, inp, vparams, mgr, ret, mgrVars, handleVars, histVars>>

(***************************************************************************)
(* _initialize_pool (influxdb_client.py), called first by get_client.      *)
(***************************************************************************)
\* an initialisation that does not look at the flag
NeverInitialized(m) == FALSE

\* if self._initialized: return
AlreadyInitialized(m) == initialized[m]

InitializePool(t) ==
  /\ running = t
  /\ pc[t] = "gc_init"
  /\ IF AlreadyInitialized(mgr[t])
       THEN /\ pc' = [pc EXCEPT ![t] = "gc_get"]
            /\ UNCHANGED <<lock, init_i>>
       ELSE /\ lock[mgr[t]] = 0
            /\ lock' = [lock EXCEPT ![mgr[t]] = t]
            /\ init_i' = [init_i EXCEPT ![mgr[t]] = 0]
            /\ pc' = [pc EXCEPT ![t] = "init_loop"]
  /\ UNCHANGED <<running, kind, inp, vparams, mgr, frames, exc, ret,
                 connection_manager, nmgr, pool_size, max_retries, connection_pool,
                 active_connections, initialized, handleVars, histVars>>

\* one iteration of the creation loop, under the lock
InitializePoolIteration(t) ==
  /\ running = t
  /\ pc[t] = "init_loop"
  /\ init_i[mgr[t]] < pool_size[mgr[t]]
  /\ LET m == mgr[t] IN
     \/ \* self._create_client() raises: logged, next iteration
        /\ MayFail \/ ~ CanCreate
        /\ init_i' = [init_i EXCEPT ![m] = @ + 1]
        /\ hist' = Fault(hist)
        /\ ops' = [ops EXCEPT ![t] = @ \cup {"create"}]
        /\ UNCHANGED <<pc, connection_pool, handleVars>>
     \/ \* client.ping() raises: logged, the client is dropped
        /\ MayFail
        /\ CanCreate
        /\ init_i' = [init_i EXCEPT ![m] = @ + 1]
        /\ hist' = Fault(hist)
        /\ ops' = [ops EXCEPT ![t] = @ \cup {"create", "ping"}]
        /\ UNCHANGED <<pc, connection_pool, closed, overflow>>
     \/ \* created and pinged: self._connection_pool.put(client), which
        \* blocks for ever when the queue is already full
        /\ CanCreate
        /\ ops' = [ops EXCEPT ![t] = @ \cup {"create", "ping"}]
        /\ IF QueueFull(connection_pool[m], pool_size[m])
             THEN /\ pc' = [pc EXCEPT ![t] = "init_put_blocked"]
                  /\ UNCHANGED <<connection_pool, init_i>>
             ELSE /\ connection_pool' = [connection_pool EXCEPT ![m] = Append(@, Fresh)]
                  /\ init_i' = [init_i EXCEPT ![m] = @ + 1]
                  /\ pc' = pc
        /\ hist' = [hist EXCEPT !.init_ok = @ \cup {Fresh}]
        /\ UNCHANGED <<closed, overflow>>
  /\ UNCHANGED <<running, kind, inp, vparams, mgr, frames, exc, ret,
                 connection_manager, nmgr, pool_size, max_retries,
                 active_connections, initialized, lock,
                 subs, acq_failed, eq_out>>

\* the loop is over: self._initialized = True, the lock is released
InitializePoolDone(t) ==
  /\ running = t
  /\ pc[t] = "init_loop"
  /\ init_i[mgr[t]] = pool_size[mgr[t]]
  /\ initialized' = [initialized EXCEPT ![mgr[t]] = TRUE]
  /\ lock' = [lock EXCEPT ![mgr[t]] = 0]
  /\ pc' = [pc EXCEPT ![t] = "gc_get"]
  /\ hist' = [hist EXCEPT !.init_ok = {}]
  /\ UNCHANGED <<running, kind, inp, vparams, mgr, frames, exc, ret,
                 connection_manager, nmgr, pool_size, max_retries, connection_pool,
                 active_connections, init_i, handleVars,
                 ops, subs, acq_failed, eq_out>>

(***************************************************************************)
(* get_client: the acquire, up to the yield.                               *)
(***************************************************************************)
\* client = self._connection_pool.get(timeout=5), an item is queued
PoolGet(t) ==
  /\ running = t
  /\ pc[t] = "gc_get"
  /\ connection_pool[mgr[t]] # << >>
  /\ frames' = SetTop(t, [Top(t) EXCEPT !.client = QueueHead(connection_pool[mgr[t]])])
  /\ connection_pool' = [connection_pool EXCEPT ![mgr[t]] = QueueRest(@)]
  /\ pc' = [pc EXCEPT ![t] = "gc_ping"]
  /\ UNCHANGED <<running, kind, inp, vparams, mgr, exc, ret,
                 connection_manager, nmgr, pool_size, max_retries,
                 active_connections, initialized, lock, init_i, handleVars, histVars>>

\* the wait ends with Empty: client = self._create_client()
PoolExhausted(t) ==
  /\ running = t
  /\ pc[t] = "gc_get"
  /\ GetTimesOut(connection_pool[mgr[t]])
  /\ ops' = [ops EXCEPT ![t] = @ \cup {"create"}]
  /\ \/ /\ CanCreate
        /\ overflow' = overflow \cup {Fresh}
        /\ frames' = SetTop(t, [Top(t) EXCEPT !.client = Fresh, !.exhausted = TRUE])
        /\ pc' = [pc EXCEPT ![t] = "gc_ping"]
        /\ hist' = [hist EXCEPT !.overflow = @ \cup {mgr[t]}]
        /\ UNCHANGED <<exc, acq_failed>>
     \/ \E e \in CreateErrors :
        /\ MayFail \/ ~ CanCreate
        /\ frames' = SetTop(t, [Top(t) EXCEPT !.exhausted = TRUE])
        /\ exc' = [exc EXCEPT ![t] = e]
        /\ pc' = [pc EXCEPT ![t] = "gc_fail"]
        /\ acq_failed' = [acq_failed EXCEPT ![t] = TRUE]
        /\ hist' = Fault(hist)
        /\ UNCHANGED overflow
  /\ UNCHANGED <<running, kind, inp, vparams, mgr, ret, mgrVars, closed,
                 subs, eq_out>>

\* client.ping(); on failure client = self._create_client()
Ping(t) ==
  /\ running = t
  /\ pc[t] = "gc_ping"
  /\ LET h == Top(t).client IN
     \/ \* the ping returns
        /\ frames' = SetTop(t, [Top(t) EXCEPT !.pinged = h])
        /\ pc' = [pc EXCEPT ![t] = "gc_register"]
        /\ ops' = [ops EXCEPT ![t] = @ \cup {"ping"}]
        /\ UNCHANGED <<exc, handleVars, acq_failed, hist>>
     \/ \* the ping raises and the replacement is created
        /\ MayFail
        /\ CanCreate
        /\ overflow' = IF Top(t).exhausted THEN overflow \cup {Fresh} ELSE overflow
        /\ frames' = SetTop(t, [Top(t) EXCEPT !.client = Fresh, !.failed = h])
        /\ pc' = [pc EXCEPT ![t] = "gc_register"]
        /\ ops' = [ops EXCEPT ![t] = @ \cup {"ping", "create"}]
        /\ hist' = Fault(hist)
        /\ UNCHANGED <<exc, closed, acq_failed>>
     \/ \* the ping raises and so does the creation of the replacement:
        \* client still names the client that failed the ping
        \E e \in CreateErrors :
        /\ MayFail
        /\ hist.faults + 1 < MaxFaults \/ ~ CanCreate
        /\ frames' = SetTop(t, [Top(t) EXCEPT !.failed = h])
        /\ exc' = [exc EXCEPT ![t] = e]
        /\ pc' = [pc EXCEPT ![t] = "gc_fail"]
        /\ ops' = [ops EXCEPT ![t] = @ \cup {"ping", "create"}]
        /\ acq_failed' = [acq_failed EXCEPT ![t] = TRUE]
        /\ hist' = Fault(Fault(hist))
        /\ UNCHANGED handleVars
  /\ UNCHANGED <<running, kind, inp, vparams, mgr, ret, mgrVars,
                 subs, eq_out>>

\* with self._lock: self._active_connections.add(client); yield client
Register(t) ==
  /\ running = t
  /\ pc[t] = "gc_register"
  /\ lock[mgr[t]] = 0
  /\ active_connections' = [active_connections EXCEPT ![mgr[t]] = @ \cup {Top(t).client}]
  /\ frames' = SetTop(t, [NewFrame EXCEPT !.client = Top(t).client, !.yielded = TRUE])
  /\ IF kind[t] = "query"
       THEN pc' = [pc EXCEPT ![t] = "eq_submit"] /\ running' = running
       ELSE pc' = [pc EXCEPT ![t] = "scope_body"] /\ running' = 0
  /\ UNCHANGED <<kind, inp, vparams, mgr, exc, ret,
                 connection_manager, nmgr, pool_size, max_retries, connection_pool,
                 initialized, lock, init_i, handleVars,
                 ops, subs, acq_failed, eq_out, hist>>

(***************************************************************************)
(* execute_query: the body of the scope.                                   *)
(***************************************************************************)
\* tables = client.query_api().query(query) and what follows it
Submit(t) ==
  /\ running = t
  /\ pc[t] = "eq_submit"
  /\ ops' = [ops EXCEPT ![t] = @ \cup {"query"}]
  /\ \/ \E tables \in QueryResults :
        /\ subs' = [subs EXCEPT ![t] = SubReturned(@, tables)]
        /\ ret' = [ret EXCEPT ![t] = List(ResultList(tables))]
        /\ pc' = [pc EXCEPT ![t] = "gc_exit"]
        /\ UNCHANGED <<running, exc>>
     \/ \E e \in QueryErrors :
        /\ subs' = [subs EXCEPT ![t] = SubRaised(@, e)]
        /\ ret' = ret
        /\ IF e.type = "InfluxDBError"
             THEN IF RetryAllowed(retry_count(t), max_retries[mgr[t]], e.msg)
                    THEN \* await asyncio.sleep(0.5 * (retry_count + 1))
                         /\ pc' = [pc EXCEPT ![t] = "backoff"]
                         /\ running' = 0
                         /\ exc' = exc
                    ELSE /\ exc' = [exc EXCEPT ![t] = Exception(
                                      <<"I","n","f","l","u","x","D","B"," ","q","u","e","r","y"," ","f","a","i","l","e","d"," ","a","f","t","e","r"," ">> \o Str(retry_count(t) + 1)
                                        \o <<" ","a","t","t","e","m","p","t","s",":"," ">> \o e.msg)]
                         /\ pc' = [pc EXCEPT ![t] = "gc_exit"]
                         /\ running' = running
             ELSE /\ exc' = [exc EXCEPT ![t] = Exception(<<"Q","u","e","r","y"," ","e","x","e","c","u","t","i","o","n"," ","f","a","i","l","e","d",":"," ">> \o e.msg)]
                  /\ pc' = [pc EXCEPT ![t] = "gc_exit"]
                  /\ running' = running
  /\ UNCHANGED <<kind, inp, vparams, mgr, frames, mgrVars, handleVars,
                 acq_failed, eq_out, hist>>

\* the sleep is over: return await self.execute_query(query, retry_count + 1),
\* called inside the scope of the failed attempt
BackoffWake(t) ==
  /\ running = 0
  /\ pc[t] = "backoff"
  /\ running' = t
  /\ Renamed([frames EXCEPT ![t] = Append(@, NewFrame)])
  /\ pc' = [pc EXCEPT ![t] = "gc_init"]
  /\ UNCHANGED <<kind, inp, vparams, mgr, exc, ret, connection_manager, nmgr, pool_size, max_retries,
                 initialized, lock, init_i, histVars>>

\* the body of a direct scope resumes and ends, normally or by raising
ScopeBodyEnd(t) ==
  /\ running = 0
  /\ pc[t] = "scope_body"
  /\ running' = t
  /\ pc' = [pc EXCEPT ![t] = "gc_exit"]
  /\ \/ exc' = exc
     \/ \E e \in BodyErrors : exc' = [exc EXCEPT ![t] = e]
  /\ Renamed(frames)
  /\ UNCHANGED <<kind, inp, vparams, mgr, ret, connection_manager, nmgr, pool_size, max_retries,
                 initialized, lock, init_i, histVars>>

(***************************************************************************)
(* get_client: the except and finally clauses.                             *)
(***************************************************************************)
\* the exception that leaves the scope, given the one that entered the except
\* clause: before the yield a plain return makes the context manager raise
\* "generator didn't yield", after the yield it suppresses the exception
AfterExcept(e, yielded) ==
  IF e = NoError THEN NoError
  ELSE IF ReturnsInsteadOfRaising(e.msg)
    THEN IF yielded THEN NoError ELSE RuntimeError(<<"g","e","n","e","r","a","t","o","r"," ","d","i","d","n","'","t"," ","y","i","e","l","d">>)
  ELSE e

\* the value the enclosing coroutine returns once the scope is left
AfterExceptValue(e, yielded, r) ==
  IF e # NoError /\ ReturnsInsteadOfRaising(e.msg) /\ yielded THEN None ELSE r

ScopeExit(t) ==
  /\ running = t
  /\ pc[t] \in {"gc_fail", "gc_exit"}
  /\ lock[mgr[t]] = 0
  /\ LET m == mgr[t]
         f == Top(t)
         h == f.client
         rest == SubSeq(frames[t], 1, Len(frames[t]) - 1)
     IN
     \E close_raises \in BOOLEAN :
       LET returned == h # 0 /\ ~ QueueFull(connection_pool[m], pool_size[m])
           closes == h # 0 /\ ~ returned
           raised == IF closes /\ close_raises THEN ReleaseRaises(TRUE) ELSE NoError
           e == IF raised # NoError THEN raised ELSE AfterExcept(exc[t], f.yielded)
           r == IF raised # NoError THEN Unset
                ELSE AfterExceptValue(exc[t], f.yielded, ret[t])
       IN
       /\ close_raises => closes /\ MayFail
       /\ active_connections' =
            [active_connections EXCEPT ![m] = IF h # 0 THEN Discard(@, h) ELSE @]
       /\ connection_pool' =
            [connection_pool EXCEPT ![m] = IF returned THEN Append(@, h) ELSE @]
       /\ closed' = IF closes THEN closed \cup {h} ELSE closed
       /\ hist' = IF close_raises THEN Fault(hist) ELSE hist
       /\ frames' = [frames EXCEPT ![t] = rest]
       /\ IF rest # << >>
            THEN /\ pc' = [pc EXCEPT ![t] = "gc_exit"]
                 /\ exc' = [exc EXCEPT ![t] = e]
                 /\ ret' = [ret EXCEPT ![t] = r]
                 /\ UNCHANGED <<running, eq_out>>
            ELSE /\ pc' = [pc EXCEPT ![t] = "done"]
                 /\ running' = running
                 /\ eq_out' = [eq_out EXCEPT ![t] = [done |-> TRUE, exc |-> e, ret |-> r]]
                 /\ IF kind[t] = "query"
                      THEN /\ exc' = [exc EXCEPT ![t] = run_flux_query_finish(e, r).exc]
                           /\ ret' = [ret EXCEPT ![t] = run_flux_query_finish(e, r).ret]
                      ELSE /\ exc' = [exc EXCEPT ![t] = e]
                           /\ ret' = [ret EXCEPT ![t] = r]
  /\ UNCHANGED <<kind, inp, vparams, mgr,
                 connection_manager, nmgr, pool_size, max_retries, initialized,
                 lock, init_i, overflow, ops, subs, acq_failed>>

(***************************************************************************)
(* cleanup (influxdb_client.py) and cleanup_connections                    *)
(* (influxdb_service.py).  Neither suspends.                               *)
(***************************************************************************)
RECURSIVE DrainPoolAborting(_, _)
RECURSIVE DrainPool(_, _)
\* a drain that lets the first close() that raises through
DrainPoolAborting(q, raising) ==
  IF q = << >> THEN [left |-> << >>, closed |-> {}, raised |-> NoError]
  ELSE IF Head(q) \in raising
    THEN [left |-> Tail(q), closed |-> {Head(q)}, raised |-> Exception(<<"c","l","o","s","e"," ","f","a","i","l","e","d">>)]
  ELSE LET r == DrainPoolAborting(Tail(q), raising) IN
       [r EXCEPT !.closed = @ \cup {Head(q)}]

\* cleanup, the loop over the idle queue: get_nowait() then close(); a
\* close() that raises (the clients in raising) is logged and the loop goes on
DrainPool(q, raising) ==
  IF q = << >> THEN [left |-> << >>, closed |-> {}, raised |-> NoError]
  ELSE LET r == DrainPool(Tail(q), raising) IN
       [r EXCEPT !.closed = @ \cup {Head(q)}]

\* InfluxDBConnectionManager.cleanup, under the lock; an exception that
\* leaves the first loop leaves cleanup
Cleanup(m, raising) ==
  LET d == DrainPool(connection_pool[m], raising) IN
  /\ lock[m] = 0
  /\ connection_pool' = [connection_pool EXCEPT ![m] = d.left]
  /\ IF d.raised = NoError
       THEN /\ closed' = closed \cup d.closed \cup active_connections[m]
            /\ active_connections' = [active_connections EXCEPT ![m] = {}]
            /\ initialized' = [initialized EXCEPT ![m] = FALSE]
       ELSE /\ closed' = closed \cup d.closed
            /\ UNCHANGED <<active_connections, initialized>>
  /\ hist' = [(IF raising # {} THEN Fault(hist) ELSE hist) EXCEPT
                !.cleaned = @ \cup {m},
                !.cleanfail = IF raising # {} THEN @ \cup {m} ELSE @]

\* cleanup_connections(): the global is reset once cleanup() has returned
CleanupConnections ==
  /\ running = 0
  /\ connection_manager # 0
  /\ \E raising \in SUBSET (Range(connection_pool[connection_manager])
                              \cup active_connections[connection_manager]) :
       /\ raising # {} => MayFail
       /\ Cleanup(connection_manager, raising)
       /\ connection_manager' =
            IF DrainPool(connection_pool[connection_manager], raising).raised = NoError
              THEN 0 ELSE connection_manager
  /\ UNCHANGED <<taskVars, nmgr, pool_size, max_retries,
                 lock, init_i, overflow, ops, subs, acq_failed, eq_out>>

(***************************************************************************)
(* The end of a call.                                                      *)
(***************************************************************************)
\* the caller has the outcome of the call (InfluxDBQueryView.get answers);
\* the model forgets the finished call
Retire(t) ==
  /\ running = t
  /\ pc[t] = "done"
  /\ running' = 0
  /\ pc' = [pc EXCEPT ![t] = "retired"]
  /\ kind' = [kind EXCEPT ![t] = "none"]
  /\ inp' = [inp EXCEPT ![t] = NoInput]
  /\ vparams' = [vparams EXCEPT ![t] = NoParams]
  /\ mgr' = [mgr EXCEPT ![t] = 0]
  /\ exc' = [exc EXCEPT ![t] = NoError]
  /\ ret' = [ret EXCEPT ![t] = Unset]
  /\ ops' = [ops EXCEPT ![t] = {}]
  /\ subs' = [subs EXCEPT ![t] = NoSubs]
  /\ acq_failed' = [acq_failed EXCEPT ![t] = FALSE]
  /\ eq_out' = [eq_out EXCEPT ![t] = [done |-> FALSE, exc |-> NoError, ret |-> Unset]]
  /\ Renamed(frames)
  /\ UNCHANGED <<connection_manager, nmgr, pool_size, max_retries,
                 initialized, lock, init_i, hist>>

(***************************************************************************)
(* The specification.                                                      *)
(***************************************************************************)
TaskStep(t) ==
  \/ GetConnectionManager(t)
  \/ BuildSafeQuery(t)
  \/ InitializePool(t)
  \/ InitializePoolIteration(t)
  \/ InitializePoolDone(t)
  \/ PoolGet(t)
  \/ PoolExhausted(t)
  \/ Ping(t)
  \/ Register(t)
  \/ Submit(t)
  \/ BackoffWake(t)
  \/ ScopeBodyEnd(t)
  \/ ScopeExit(t)
  \/ Retire(t)

Next ==
  \/ \E t \in Tasks, rq \in Requests : RunFluxQuery(t, rq)
  \/ \E t \in Tasks, c \in {ConfA, ConfB} : StartScope(t, c)
  \/ \E t \in Tasks : TaskStep(t)
  \/ CleanupConnections

Spec == Init /\ [][Next]_vars


(***************************************************************************)
(* Properties.                                                             *)
(***************************************************************************)
QueryTasks == {t \in Tasks : kind[t] = "query"}

HasPrefix(s, p) == Len(s) >= Len(p) /\ SubSeq(s, 1, Len(p)) = p

\* run_flux_query rejects the request: the validator raises, or the query
\* built from the validated parameters trips the injection check
Rejected(rq) ==
  LET v == validate_query_parameters(
             [entity_id |-> rq.entity_id, bucket |-> conf_get_bucket(rq.conf),
              range_start |-> rq.range_start, range_stop |-> rq.range_stop]) IN
  IF ~ v.ok THEN TRUE
  ELSE ~ build_safe_query(v.val.bucket, v.val.domain, v.val.entity,
                          v.val.range_start, v.val.range_stop).ok

\* the requests of the model that run_flux_query rejects
RejectedRequests == {rq \in Requests : Rejected(rq)}

\* no task is inside a call
Quiescent == \A t \in Tasks : pc[t] \in {"new", "done", "retired"}

\* the scopes that hold client h: yielded by an acquire and not yet released
Holders(h) ==
  {<<t, i>> \in Tasks \X (1..MaxHandles + 2) :
     i <= Len(frames[t]) /\ frames[t][i].yielded /\ frames[t][i].client = h}

\* C1: a run_flux_query call whose entity id, bucket or time range the
\* validator rejects, or whose built query trips the injection check, makes
\* no backend operation (creation, ping, query) at any point and fails with
\* the validation-class error.
C1_RejectedCallNeverReachesBackend ==
  \A t \in QueryTasks :
    inp[t] \in RejectedRequests =>
      /\ ops[t] = {}
      /\ frames[t] = << >>
      /\ pc[t] \in {"getmgr", "build", "done"}
      /\ pc[t] = "done" =>
           /\ exc[t].type = "ValueError"
           /\ HasPrefix(exc[t].msg, <<"I","n","p","u","t"," ","v","a","l","i","d","a","t","i","o","n"," ","f","a","i","l","e","d",":"," ">>)
           /\ ret[t] = Unset

\* a call rejected by the injection check, after it obtained the manager, has failed
C1_Witness ==
  \E t \in QueryTasks :
    /\ pc[t] = "done"
    /\ mgr[t] # 0
    /\ inp[t] \in RejectedRequests
    /\ exc[t].type = "ValueError"

\* C2: when the first k <= max_retries submissions raise retryable backend
\* errors and submission k+1 returns, execute_query returns the records of
\* that submission and the query was submitted exactly k+1 times; it does
\* not give up while no more than max_retries submissions have failed.
C2_RetryThenSuccess ==
  \A t \in QueryTasks :
    eq_out[t].done =>
      LET s == subs[t]
          maxr == max_retries[mgr[t]]
      IN
      /\ (s.ok_at >= 1 /\ s.all_retryable /\ s.ok_at - 1 <= maxr) =>
           /\ eq_out[t].exc = NoError
           /\ eq_out[t].ret = List(ResultList(s.tables))
           /\ s.n = s.ok_at
      /\ (s.ok_at = 0 /\ s.n >= 1 /\ s.all_retryable /\ ~ acq_failed[t]) =>
           s.n > maxr

\* max_retries retryable failures, then a submission that returned records
C2_Witness ==
  \E t \in QueryTasks :
    /\ eq_out[t].done
    /\ subs[t].all_retryable
    /\ subs[t].ok_at = max_retries[mgr[t]] + 1
    /\ subs[t].ok_at >= 2
    /\ subs[t].tables # << >>
    /\ eq_out[t].ret = List(ResultList(subs[t].tables))

\* C3: when every submission raises a retryable backend error (whatever the
\* retryable keyword), execute_query fails with the query-failed error that
\* reports max_retries+1 attempts, after exactly max_retries+1 submissions,
\* and never returns normally.
C3_PersistentErrorFailsAfterAllAttempts ==
  \A t \in QueryTasks :
    (/\ eq_out[t].done
     /\ ~ acq_failed[t]
     /\ subs[t].n >= 1
     /\ subs[t].ok_at = 0
     /\ subs[t].all_retryable) =>
      /\ subs[t].n = max_retries[mgr[t]] + 1
      /\ eq_out[t].exc =
           Exception(<<"I","n","f","l","u","x","D","B"," ","q","u","e","r","y"," ","f","a","i","l","e","d"," ","a","f","t","e","r"," ">> \o Str(max_retries[mgr[t]] + 1)
                       \o <<" ","a","t","t","e","m","p","t","s",":"," ">> \o subs[t].last_err.msg)

\* C4: from a pool initialised with exactly capacity handles, after acquire
\* and release cycles in which no creation, ping or close failed (and no
\* shutdown ran), once every cycle is over the idle pool holds exactly
\* capacity handles and the checked-out set is empty.
C4_PoolRestoredAfterCycles ==
  \A m \in Managers :
    (/\ Quiescent
     /\ initialized[m]
     /\ hist.faults = 0
     /\ hist.cleaned = {}) =>
      /\ Len(connection_pool[m]) = pool_size[m]
      /\ active_connections[m] = {}

\* both calls are over, one of them had found the pool exhausted
C4_Witness ==
  /\ \A t \in Tasks : pc[t] = "retired"
  /\ hist.overflow # {}
  /\ hist.faults = 0
  /\ hist.cleaned = {}
  /\ connection_manager # 0
  /\ initialized[connection_manager]
  /\ Len(connection_pool[connection_manager]) = pool_size[connection_manager]

\* C5, as stated: the idle pool never holds more than capacity handles, and
\* idle plus checked-out exceeds capacity only while an overflow handle is
\* still checked out.
C5_ExcessOnlyWhileOverflowCheckedOut ==
  \A m \in Managers :
    /\ Len(connection_pool[m]) <= pool_size[m]
    /\ Len(connection_pool[m]) + Cardinality(active_connections[m]) > pool_size[m] =>
         overflow \cap active_connections[m] # {}

\* C5: the idle pool never holds more than capacity handles, and idle plus
\* checked-out exceeds capacity only after an acquire found the pool
\* exhausted and created an overflow handle, or after the pool was shut down.
C5_ExcessOnlyAfterOverflow ==
  \A m \in Managers :
    /\ Len(connection_pool[m]) <= pool_size[m]
    /\ Len(connection_pool[m]) + Cardinality(active_connections[m]) > pool_size[m] =>
         m \in hist.overflow \cup hist.cleaned

\* the excess lasts although the overflow handle is back in the idle pool
C5_Witness ==
  \E m \in Managers :
    /\ m \notin hist.cleaned
    /\ Len(connection_pool[m]) + Cardinality(active_connections[m]) > pool_size[m]
    /\ overflow \cap active_connections[m] = {}
    /\ m \in hist.overflow

\* C6: under any interleaving of acquire, release, initialise and shutdown,
\* no handle is at once in the idle pool and in the checked-out set, and no
\* handle is held by more than one acquire scope.
C6_ExclusiveOwnership ==
  /\ \A m \in Managers : Range(connection_pool[m]) \cap active_connections[m] = {}
  /\ \A h \in Handles : Cardinality(Holders(h)) <= 1

\* two requests hold handles of the same pool while a third handle is idle
C6_Witness ==
  /\ \A t \in Tasks : frames[t] # << >> /\ frames[t][1].yielded
  /\ mgr[1] = mgr[2]
  /\ connection_pool[mgr[1]] # << >>
  /\ frames[1][1].client # frames[2][1].client

C8_HandedOutHandleWasPinged ==
  \A t \in Tasks :
    pc[t] = "gc_register" => Top(t).pinged = Top(t).client

\* C9: a handle that fails its ping inside an acquire is closed and is no
\* longer the handle of the scope, so that it is neither handed out nor put
\* back in the idle pool, also when the creation of its replacement fails.
C9_FailedHandleIsDiscarded ==
  \A t \in Tasks :
    (pc[t] \in {"gc_register", "gc_fail"} /\ Top(t).failed # 0) =>
      /\ Top(t).failed \in closed
      /\ Top(t).client # Top(t).failed

\* C10: on every exit of the scope after the yield, normal or by an exception
\* of the body, the handle leaves the checked-out set and goes back to the
\* idle pool when that is below capacity, else it is closed; the exception
\* that leaves the scope is the body's or none, never one of the release.
C10_ReleaseOnEveryExit ==
  [][\A t \in Tasks :
       (pc[t] = "gc_exit" /\ Len(frames'[t]) < Len(frames[t])) =>
         LET m == mgr[t]
             h == Top(t).client
             leaving == IF Len(frames[t]) > 1 THEN exc'[t] ELSE eq_out'[t].exc
         IN
         /\ h \notin active_connections'[m]
         /\ IF Len(connection_pool[m]) < pool_size[m]
              THEN /\ connection_pool'[m] = Append(connection_pool[m], h)
                   /\ closed' = closed
              ELSE /\ connection_pool'[m] = connection_pool[m]
                   /\ h \in closed'
         /\ leaving \in {exc[t], NoError}
    ]_vars

\* a scope was left by an exception of its body and its handle was closed
\* because the idle pool was full
C10_Witness ==
  \E t \in Tasks :
    /\ eq_out[t].done
    /\ ~ acq_failed[t]
    /\ eq_out[t].exc # NoError
    /\ closed # {}
    /\ hist.cleaned = {}

\* C11: when cleanup() returns the idle pool and the checked-out set are
\* empty, the ready flag is false and close() has been called on every
\* handle that was idle or checked out when it began, whichever of the
\* close() calls raise; cleanup itself raises nothing, so that
\* cleanup_connections resets the global.
C11_CleanupClosesEverything ==
  [][CleanupConnections =>
       LET m == connection_manager IN
       /\ connection_manager' = 0
       /\ connection_pool'[m] = << >>
       /\ active_connections'[m] = {}
       /\ ~ initialized'[m]
       /\ (Range(connection_pool[m]) \cup active_connections[m]) \subseteq closed'
    ]_vars

\* a cleanup in which a close() raised has closed an idle handle and one
\* that a request still holds
C11_Witness ==
  \E m \in hist.cleanfail :
    /\ connection_pool[m] = << >>
    /\ active_connections[m] = {}
    /\ ~ initialized[m]
    /\ \E t \in Tasks : /\ mgr[t] = m
                        /\ frames[t] # << >>
                        /\ frames[t][1].yielded
                        /\ frames[t][1].client \in closed
    /\ Cardinality(closed) >= 2

\* C12: after cleanup() the next acquire on that pool re-initialises it and
\* terminates with the pool ready in every interleaving: its creation loop
\* never blocks on the idle queue.
C12_ReinitialisationTerminates ==
  \A t \in Tasks : pc[t] # "init_put_blocked"

\* the tasks inside the creation loop of manager m
Initialisers(m) == {t \in Tasks : mgr[t] = m /\ pc[t] \in {"init_loop", "init_put_blocked"}}

\* C13: of the concurrent or repeated _initialize_pool calls on a pool, only
\* one runs the creation loop, and only while the pool is not ready; the loop
\* makes capacity attempts, each adding at most one handle; a call on a ready
\* pool returns without changing the pool, and only a cleanup makes a ready
\* pool unready again.
C13_InitialisationIdempotent ==
  [][/\ \A t \in Tasks :
          (pc[t] = "gc_init" /\ pc'[t] # "gc_init") =>
            IF initialized[mgr[t]]
              THEN /\ pc'[t] = "gc_get"
                   /\ UNCHANGED <<connection_pool, active_connections, initialized,
                                  lock, init_i, closed, overflow>>
              ELSE /\ pc'[t] = "init_loop"
                   /\ Initialisers(mgr[t]) = {}
                   /\ Initialisers(mgr[t])' = {t}
     /\ \A m \in Managers :
          /\ Len(connection_pool'[m]) > Len(connection_pool[m]) /\ Initialisers(m) # {} =>
               /\ ~ initialized[m]
               /\ Len(connection_pool'[m]) = Len(connection_pool[m]) + 1
               /\ init_i'[m] = init_i[m] + 1
               /\ init_i'[m] <= pool_size[m]
          /\ (~ initialized[m] /\ initialized'[m]) => init_i[m] = pool_size[m]
          /\ (initialized[m] /\ ~ initialized'[m]) => CleanupConnections
    ]_vars

\* a second request found the pool ready: it is about to dequeue without
\* having created or pinged anything, while the first request holds a handle
C13_Witness ==
  \E t, u \in Tasks :
    /\ t # u
    /\ pc[t] = "gc_get"
    /\ ops[t] = {}
    /\ mgr[t] = mgr[u]
    /\ initialized[mgr[t]]
    /\ hist.cleaned = {}
    /\ frames[u] # << >> /\ frames[u][1].yielded
    /\ Len(connection_pool[mgr[t]]) + Cardinality(active_connections[mgr[t]]) = pool_size[mgr[t]]

\* C14: initialisation never fails: whichever of the capacity attempts fail
\* (construction or ping), the creation loop runs to its end, the pool is
\* then ready and its idle queue holds exactly the handles whose creation
\* and ping both succeeded, never more than capacity.
C14_InitialisationNeverFails ==
  [][\A t \in Tasks :
       pc[t] = "init_loop" =>
         /\ pc'[t] \in {"init_loop", "gc_get"}
         /\ pc'[t] = "gc_get" =>
              /\ initialized'[mgr[t]]
              /\ Range(connection_pool'[mgr[t]]) = hist.init_ok
              /\ Len(connection_pool'[mgr[t]]) <= pool_size[mgr[t]]
    ]_vars


\* C15: when a submission raises a non-retryable backend error or any
\* non-backend exception, whatever its text, execute_query fails at once: no
\* backoff, no re-acquire and no further submission follow (the query is
\* submitted once when that submission was the first), and the call ends
\* with an error, never with a return.
C15_NonRetryableFailsImmediately ==
  [][\A t \in QueryTasks :
       LET fatal == subs[t].n >= 1 /\ ~ subs[t].all_retryable
           fatal2 == subs'[t].n >= 1 /\ ~ subs'[t].all_retryable
       IN
       /\ fatal => /\ subs'[t].n <= subs[t].n
                   /\ Len(frames'[t]) <= Len(frames[t])
       /\ fatal2 => /\ pc'[t] # "backoff"
                    /\ subs'[t].ok_at = 0
       /\ (fatal2 /\ eq_out'[t].done) =>
            /\ eq_out'[t].exc # NoError
            /\ eq_out'[t].ret = Unset
    ]_vars

\* C16: the process-wide manager is created by the first request and reused:
\* between two cleanup_connections calls every get_connection_manager call,
\* whatever config it passes, returns the one instance, which keeps the
\* configuration of the call that created it; cleanup_connections empties
\* the global and the next call creates a new instance.
C16_ManagerSingleton ==
  [][/\ \A t \in Tasks :
          (pc[t] = "getmgr" /\ pc'[t] # "getmgr") =>
            /\ mgr'[t] = connection_manager'
            /\ IF connection_manager # 0
                 THEN connection_manager' = connection_manager
                 ELSE /\ connection_manager' \notin 0..nmgr
                      /\ \A u \in Tasks : mgr[u] # connection_manager'
                      /\ pool_size'[connection_manager'] = inp[t].conf.pool_size
                      /\ max_retries'[connection_manager'] = inp[t].conf.max_retries
     /\ \A m \in 1..nmgr :
          /\ pool_size'[m] = pool_size[m]
          /\ max_retries'[m] = max_retries[m]
     /\ (connection_manager # 0 /\ connection_manager' # connection_manager) =>
          /\ connection_manager' = 0
          /\ CleanupConnections
     /\ CleanupConnections => connection_manager' = 0
    ]_vars

\* two requests that passed different configurations share the instance
\* configured by the first of them
C16_Witness ==
  /\ mgr[1] # 0
  /\ mgr[1] = mgr[2]
  /\ mgr[2] = connection_manager
  /\ inp[1].conf.pool_size # inp[2].conf.pool_size
  /\ pool_size[mgr[2]] = inp[1].conf.pool_size
  /\ max_retries[mgr[2]] # inp[2].conf.max_retries

\* C17: run_flux_query surfaces two failure kinds and classifies by origin:
\* a failure is the validation-class error ("Input validation failed") if
\* and only if the validator or the injection check raised it; every failure
\* that arises in the pool acquisition or in the backend is the
\* query-execution error ("Query execution failed").
C17_ClassifiedByOrigin ==
  \A t \in QueryTasks :
    (pc[t] = "done" /\ exc[t] # NoError) =>
      IF inp[t] \in RejectedRequests
        THEN /\ exc[t].type = "ValueError"
             /\ HasPrefix(exc[t].msg, <<"I","n","p","u","t"," ","v","a","l","i","d","a","t","i","o","n"," ","f","a","i","l","e","d",":"," ">>)
        ELSE /\ exc[t].type = "Exception"
             /\ HasPrefix(exc[t].msg, <<"Q","u","e","r","y"," ","e","x","e","c","u","t","i","o","n"," ","f","a","i","l","e","d",":"," ">>)

\* C18: no failure is silently swallowed: when a submission fails with a
\* backend or local error that is not retried, execute_query raises to its
\* caller, whatever the text of the error (it never returns normally without
\* a record list), and the error that run_flux_query finally surfaces
\* carries the message of the original cause.
C18_NoFailureSwallowed ==
  \A t \in QueryTasks :
    (/\ eq_out[t].done
     /\ ~ acq_failed[t]
     /\ subs[t].n >= 1
     /\ subs[t].ok_at = 0) =>
      /\ eq_out[t].exc # NoError
      /\ eq_out[t].ret = Unset
      /\ Contains(eq_out[t].exc.msg, subs[t].last_err.msg)
      /\ pc[t] = "done" =>
           /\ exc[t].type = "Exception"
           /\ Contains(exc[t].msg, subs[t].last_err.msg)

\* the number of records in the tables before table a
RECURSIVE RecordsBefore(_, _)
RecordsBefore(tables, a) ==
  IF a <= 1 THEN 0 ELSE RecordsBefore(tables, a - 1) + Len(tables[a - 1])

\* C19: on success the result of execute_query, and unchanged that of
\* run_flux_query, is the list with one {time, value} entry per backend
\* record, in the order of the tables and of the records within each table,
\* the value passed through as it is whatever its type; a result without
\* records gives the empty list.
C19_ResultListMapsRecords ==
  \A t \in QueryTasks :
    (pc[t] = "done" /\ exc[t] = NoError) =>
      LET tables == subs[t].tables IN
      /\ subs[t].ok_at >= 1
      /\ ret[t].kind = "list"
      /\ eq_out[t].ret = ret[t]
      /\ Len(ret[t].val) = RecordsBefore(tables, Len(tables) + 1)
      /\ \A a \in 1..Len(tables) : \A b \in 1..Len(tables[a]) :
           LET entry == ret[t].val[RecordsBefore(tables, a) + b] IN
           /\ DOMAIN entry = {"time", "value"}
           /\ entry.time = isoformat(tables[a][b].time)
           /\ entry.value = tables[a][b].value

\* a call returned the three records of a result whose second table is empty
C19_Witness ==
  \E t \in QueryTasks :
    /\ pc[t] = "done"
    /\ exc[t] = NoError
    /\ Len(subs[t].tables) = 3
    /\ subs[t].tables[2] = << >>
    /\ Len(ret[t].val) = 3
    /\ ret[t].val[3].value = subs[t].tables[3][1].value

HasSuffix(s, p) == Len(s) >= Len(p) /\ SubSeq(s, Len(s) - Len(p) + 1, Len(s)) = p

\* the three pipeline stages of the fixed template
FromStage(bucket) == <<"f","r","o","m","(","b","u","c","k","e","t",":"," ","\"">> \o bucket \o <<"\"",")">>

RangeStage(range_start, range_stop) ==
  <<"|",">"," ","r","a","n","g","e","(","s","t","a","r","t",":"," ">> \o range_start \o <<","," ","s","t","o","p",":"," ">> \o range_stop \o <<")">>

FilterStage(domain, entity) ==
  <<"|",">"," ","f","i","l","t","e","r","(","f","n",":"," ","(","r",")"," ","=",">"," ","r","[","\"","_","m","e","a","s","u","r","e","m","e","n","t","\"","]"," ","=","="," ","\"">> \o domain
    \o <<"\""," ","a","n","d"," ","r","[","\"","e","n","t","i","t","y","_","i","d","\"","]"," ","=","="," ","\"">> \o entity
    \o <<"\""," ","a","n","d"," ","r","[","\"","_","f","i","e","l","d","\"","]"," ","=","="," ","\"","v","a","l","u","e","\"",")">>

\* q is the three stages in their order, with whitespace only between them
IsTemplateOf(q, bucket, domain, entity, range_start, range_stop) ==
  LET first == FromStage(bucket)
      last == FilterStage(domain, entity)
  IN
  /\ Len(q) >= Len(first) + Len(last)
  /\ HasPrefix(q, first)
  /\ HasSuffix(q, last)
  /\ LET middle == SubSeq(q, Len(first) + 1, Len(q) - Len(last)) IN
     /\ middle # Strip(middle)
     /\ Strip(middle) = RangeStage(range_start, range_stop)

\* what the claim requires of _build_safe_query on these arguments
BuildsTemplateOrRejects(bucket, domain, entity, range_start, range_stop) ==
  LET q == build_safe_query(bucket, domain, entity, range_start, range_stop)
      expected == FromStage(bucket) \o <<" ">> \o RangeStage(range_start, range_stop)
                    \o <<" ">> \o FilterStage(domain, entity)
  IN
  IF check_for_injection_attempts(expected)
    THEN /\ ~ q.ok
         /\ q.err = ValueError(<<"P","o","t","e","n","t","i","a","l","l","y"," ","d","a","n","g","e","r","o","u","s"," ","q","u","e","r","y"," ","d","e","t","e","c","t","e","d"," ","a","f","t","e","r"," ","c","o","n","s","t","r","u","c","t","i","o","n">>)
    ELSE /\ q.ok
         /\ IsTemplateOf(q.val, bucket, domain, entity, range_start, range_stop)

\* arguments _build_safe_query is applied to besides those of the requests:
\* bucket, domain, entity, range_start, range_stop
BuildArguments ==
  { << <<"h","o","m","e","a","s","s","i","s","t","a","n","t">>, <<"s","e","n","s","o","r">>, <<"t","e","m","p","e","r","a","t","u","r","e">>, <<"-","1","h">>, <<"n","o","w","(",")">> >>,
    << <<"a","\"","b">>, <<"S">>, <<"t"," ","x">>, <<"-","1","h">>, <<" ","n","o","w","(",")">> >>,
    << <<"h","a">>, <<"s","e","n","s","o","r">>, <<"t">>, <<"i","m","p","o","r","t"," ","x">>, <<"n","o","w","(",")">> >>,
    << <<"h","a">>, <<"<","s","c","r","i","p","t">>, <<"t">>, <<"-","1","h">>, <<"n","o","w","(",")">> >>,
    << << >>, << >>, << >>, << >>, << >> >> }

BuildArgumentsRight ==
  \A a \in BuildArguments : BuildsTemplateOrRejects(a[1], a[2], a[3], a[4], a[5])

\* C20: for all inputs on which the injection check is negative,
\* _build_safe_query returns the fixed template  from(bucket: "<bucket>")
\* |> range(start: <start>, stop: <stop>) |> filter(fn: (r) =>
\* r["_measurement"] == "<domain>" and r["entity_id"] == "<entity>" and
\* r["_field"] == "value")  with the five arguments interpolated verbatim, up
\* to the whitespace between the stages; when the check is positive it fails
\* with the injection-detected error and no query is returned, so that the
\* call ends there.
C20_BuildSafeQueryTemplate ==
  [][/\ BuildArgumentsRight
     /\ \A t \in QueryTasks :
          (pc[t] = "build" /\ pc'[t] # "build") =>
            LET p == vparams[t] IN
            /\ BuildsTemplateOrRejects(p.bucket, p.domain, p.entity,
                                       p.range_start, p.range_stop)
            /\ IF build_safe_query(p.bucket, p.domain, p.entity,
                                   p.range_start, p.range_stop).ok
                 THEN pc'[t] = "gc_init" /\ exc'[t] = NoError
                 ELSE /\ pc'[t] = "done"
                      /\ frames'[t] = << >>
                      /\ exc'[t] = ValueError(<<"I","n","p","u","t"," ","v","a","l","i","d","a","t","i","o","n"," ","f","a","i","l","e","d",":"," ","P","o","t","e","n","t","i","a","l","l","y"," ","d","a","n","g","e","r","o","u","s"," ","q","u","e","r","y"," ","d","e","t","e","c","t","e","d"," ","a","f","t","e","r"," ","c","o","n","s","t","r","u","c","t","i","o","n">>)
    ]_vars

\* a call whose built query passed the injection check is about to acquire
\* a client, before any backend operation
C20_Witness ==
  \E t \in QueryTasks :
    /\ pc[t] = "gc_init"
    /\ frames[t] = <<NewFrame>>
    /\ ops[t] = {}
    /\ subs[t].n = 0
    /\ inp[t] \notin RejectedRequests
    /\ IsTemplateOf(build_safe_query(vparams[t].bucket, vparams[t].domain, vparams[t].entity,
                                     vparams[t].range_start, vparams[t].range_stop).val,
                    <<"h","a">>, <<"s">>, <<"t">>, <<"-","1","h">>, <<"n","o","w","(",")">>)

(***************************************************************************)
(* The pure functions called on their own: a caller (task 1) applies one   *)
(* classmethod of SecurityValidator, _should_retry or the query generation *)
(* of run_flux_query to arguments drawn from bounded sets.                 *)
(***************************************************************************)
\* longest word enumerated character by character
MaxWordLen == 4

\* longest run of one repeated character
MaxRepeat == 3

\* the character c, n times
Rep(c, n) == [i \in 1..n |-> c]

\* all strings of at most n characters of the alphabet
RECURSIVE Words(_, _)
Words(alphabet, n) ==
  IF n = 0 THEN {<< >>}
  ELSE LET shorter == Words(alphabet, n - 1) IN
       shorter \cup {Append(w, c) : w \in shorter, c \in alphabet}

\* characters of the identifiers the callers pass
IdentifierAlphabet == {"a", "Z", "9", "_", ".", "\n", " ", "'"}

\* the arguments of sanitize_identifier and validate_entity_id
IdentifierInputs ==
  Words(IdentifierAlphabet, MaxWordLen)
    \cup {Rep(c, n) : c \in DANGEROUS_CHARS, n \in 1..MaxRepeat}
    \cup {Rep("a", n) : n \in {MaxIdentifierLen, MaxIdentifierLen + 1}}
    \cup {Rep("a", n) \o <<".">> \o Rep("b", m) \o tail :
            n \in {MaxDomainLen, MaxDomainLen + 1},
            m \in {MaxEntityLen, MaxEntityLen + 1},
            tail \in {<< >>, <<"\n">>}}

Call(fn, args) == [fn |-> fn, args |-> args]

Returned(v) == [kind |-> "value", val |-> v]

\* the loop is idle and task 1 has not started: a call can be made
ValidatorIdle == running = 0 /\ pc[1] = "new"

\* task 1 calls the function fn on args; it returns r.val or raises r.err
ValidatorCall(fn, args, r) ==
  /\ pc' = [pc EXCEPT ![1] = "done"]
  /\ kind' = [kind EXCEPT ![1] = "validator"]
  /\ inp' = [inp EXCEPT ![1] = Call(fn, args)]
  /\ ret' = [ret EXCEPT ![1] = IF r.ok THEN Returned(r.val) ELSE Unset]
  /\ exc' = [exc EXCEPT ![1] = r.err]
  /\ UNCHANGED <<running, vparams, mgr, frames, mgrVars, handleVars, histVars>>

SanitizeIdentifier ==
  /\ ValidatorIdle
  /\ \E s \in IdentifierInputs :
      ValidatorCall("sanitize_identifier", <<s>>, sanitize_identifier(s))

ValidateEntityId ==
  /\ ValidatorIdle
  /\ \E s \in IdentifierInputs :
      ValidatorCall("validate_entity_id", <<s>>, validate_entity_id(s))

\* str.upper() on one character
UpperChar(c) ==
  IF \E i \in 1..Len(Lowers) : Lowers[i] = c
    THEN Uppers[CHOOSE i \in 1..Len(Lowers) : Lowers[i] = c]
    ELSE c

\* str.upper()
Upper(s) == [i \in 1..Len(s) |-> UpperChar(s[i])]

\* the first character in upper case
Capitalised(s) == [i \in 1..Len(s) |-> IF i = 1 THEN UpperChar(s[i]) ELSE s[i]]

\* the denylist of validate_time_range
DenylistedKeywords ==
  { <<"i","m","p","o","r","t">>, <<"f","r","o","m","(">>, <<"b","u","c","k","e","t","s","(">>, <<"d","r","o","p","(">>, <<"d","e","l","e","t","e","(">>,
    <<"o","r","g","(">>, <<"t","o","k","e","n","(">>, <<"e","x","e","c","(">>, <<"e","v","a","l","(">>, <<"s","y","s","t","e","m","(">>,
    <<"j","a","v","a","s","c","r","i","p","t",":">>, <<"d","a","t","a",":">>, <<"v","b","s","c","r","i","p","t",":">>, <<"f","i","l","e",":">>, <<"f","t","p",":">>,
    <<"h","t","t","p",":">>, <<"h","t","t","p","s",":">> }

\* text around a keyword
Pads == { << >>, <<"x">>, <<" ","-","1","h"," ">> }

\* time expressions without a denylisted keyword
PlainTimes == { <<"-","1","h">>, <<"n","o","w","(",")">>, <<"2","0","2","4","-","0","1","-","0","1","T","0","0",":","0","0",":","0","0","Z">>, <<"f","r","o","m"," ","(">>, <<"E","x","e","c">> }

\* one side of a time range: plain, empty, or a keyword in lower, upper or
\* mixed case inside some text
RangeTexts ==
  PlainTimes \cup { << >> }
    \cup {pre \o k \o post :
            k \in UNION {{w, Upper(w), Capitalised(w)} : w \in DenylistedKeywords},
            pre \in Pads, post \in Pads}

\* the other side
OtherSides == { << >>, <<"n","o","w","(",")">>, <<"a"," ","D","r","o","p","(","b",")">> }

\* the arguments of validate_time_range
RangeInputs ==
  {<<a, b>> : a \in RangeTexts, b \in OtherSides}
    \cup {<<b, a>> : a \in RangeTexts, b \in OtherSides}

ValidateTimeRange ==
  /\ ValidatorIdle
  /\ \E a \in RangeInputs :
      ValidatorCall("validate_time_range", a, validate_time_range(a[1], a[2]))

\* most pieces a query text is made of
MaxSegments == 3

\* pieces of query text
QuerySegments ==
  { <<"f","r","o","m","(","b","u","c","k","e","t",":"," ","\"","b","\"",")">>, <<"F","r","o","m","(","B","u","c","k","e","t",":"," ","\"","c","\"",")">>, <<" ","|",">"," ","f","r","o","m","(","x",")">>, <<"F","R","O","M","(","y",")">>,
    <<" ","|",">"," ","r","a","n","g","e","(","s","t","a","r","t",":"," ","-","1","h",")">>, <<" ","|",">"," ","d","r","o","p","(",")">> }

RECURSIVE Join(_)
Join(segments) ==
  IF segments = << >> THEN << >> ELSE Head(segments) \o Join(Tail(segments))

\* the arguments of check_for_injection_attempts
QueryInputs == {Join(w) : w \in Words(QuerySegments, MaxSegments)}

CheckForInjectionAttempts ==
  /\ ValidatorIdle
  /\ \E q \in QueryInputs :
      ValidatorCall("check_for_injection_attempts", <<q>>,
                    Ok(check_for_injection_attempts(q)))

\* the dicts passed to validate_query_parameters: each recognised key is
\* absent, valid or invalid, and any of four further keys may be present
EntityIdParams == {EmptyDict, [entity_id |-> <<"s",".","t">>], [entity_id |-> <<"s","t">>],
                   [entity_id |-> <<"s",".","t","\n">>]}

BucketParams == {EmptyDict, [bucket |-> <<"h","a">>], [bucket |-> <<"h"," ","a">>]}

RangeParams ==
  {EmptyDict, [range_start |-> <<"-","1","h">>, range_stop |-> <<"n","o","w","(",")">>],
   [range_start |-> <<"e","x","e","c","(">>, range_stop |-> <<"n","o","w","(",")">>], [range_start |-> <<"-","1","h">>]}

ExtraParams ==
  {a @@ b @@ c @@ d :
     a \in {EmptyDict, [note |-> PyStr(<<"a","'","b">>)]},
     b \in {EmptyDict, [limit |-> PyInt(5)]},
     c \in {EmptyDict, [domain |-> PyStr(<<"x"," ","y">>)]},
     d \in {EmptyDict, [unit |-> PyStr(<<"k","W","h">>)]}}

ParamInputs ==
  {e @@ b @@ r @@ x :
     e \in EntityIdParams, b \in BucketParams, r \in RangeParams, x \in ExtraParams}

ValidateQueryParameters ==
  /\ ValidatorIdle
  /\ \E p \in ParamInputs :
      ValidatorCall("validate_query_parameters", <<p>>, validate_query_parameters(p))

\* characters of the values escape_value is given: the six characters of
\* ESCAPE_CHARS and one other
EscapeAlphabet == {"a", "\"", "'", "\\", "\n", "\r", "\t"}

\* the arguments of escape_value
EscapeInputs == Words(EscapeAlphabet, MaxWordLen)

EscapeValue ==
  /\ ValidatorIdle
  /\ \E s \in EscapeInputs :
      ValidatorCall("escape_value", <<s>>, Ok(escape_value(s)))

\* the keywords of _should_retry
RetryKeywords ==
  { <<"c","o","n","n","e","c","t","i","o","n">>, <<"t","i","m","e","o","u","t">>, <<"n","e","t","w","o","r","k">>, <<"u","n","a","v","a","i","l","a","b","l","e">>, <<"t","e","m","p","o","r","a","r","y">>,
    <<"5","0","2">>, <<"5","0","3">>, <<"5","0","4">> }

\* error messages without a retryable keyword
PlainMessages ==
  { << >>, <<"i","n","v","a","l","i","d"," ","q","u","e","r","y"," ","s","y","n","t","a","x">>, <<"a","u","t","h","e","n","t","i","c","a","t","i","o","n"," ","f","a","i","l","e","d">>, <<"b","u","c","k","e","t"," ","n","o","t"," ","f","o","u","n","d">>,
    <<"c","o","n","n","e","c","t","i","o"," ","n">>, <<"t","i","m","e"," ","o","u","t">>, <<"5","0"," ","4">>, <<"5","0","1">>, <<"n","e","t"," ","w","o","r","k">> }

\* the messages of the errors _should_retry is given: plain, or a keyword
\* in lower, upper or mixed case inside some text
RetryMessages ==
  PlainMessages
    \cup {pre \o k \o post :
            k \in UNION {{w, Upper(w), Capitalised(w)} : w \in RetryKeywords},
            pre \in Pads, post \in Pads}

ShouldRetry ==
  /\ ValidatorIdle
  /\ \E msg \in RetryMessages :
      ValidatorCall("_should_retry", <<msg>>, Ok(should_retry(msg)))

\* run_flux_query up to the call of execute_query: the query it is about
\* to submit for request rq, or the error it raises instead
SubmittedQuery(rq) ==
  LET v == validate_query_parameters(
             [entity_id |-> rq.entity_id, bucket |-> conf_get_bucket(rq.conf),
              range_start |-> rq.range_start, range_stop |-> rq.range_stop]) IN
  IF ~ v.ok THEN Raise(run_flux_query_except(v.err))
  ELSE LET q == build_safe_query(v.val.bucket, v.val.domain, v.val.entity,
                                 v.val.range_start, v.val.range_stop) IN
       IF q.ok THEN q ELSE Raise(run_flux_query_except(q.err))

\* run_flux_query on any entity_id, the other arguments valid
GenerateQuery ==
  /\ ValidatorIdle
  /\ \E e \in IdentifierInputs :
      ValidatorCall("run_flux_query", <<e>>, SubmittedQuery(Request(ConfA, e, <<"-","1","h">>)))

NextValidator ==
  \/ SanitizeIdentifier
  \/ ValidateEntityId
  \/ ValidateTimeRange
  \/ CheckForInjectionAttempts
  \/ ValidateQueryParameters
  \/ EscapeValue
  \/ ShouldRetry
  \/ GenerateQuery

SpecValidator == Init /\ [][NextValidator]_vars

\* the call of fn that task 1 made is over
Called(fn) == pc[1] = "done" /\ kind[1] = "validator" /\ inp[1].fn = fn

\* C22: for every string d.e whose parts d and e are non-empty, made of
\* [A-Za-z0-9_] only and at most 50 and 100 characters long,
\* validate_entity_id returns exactly (d, e), and sanitize_identifier
\* returns d and e unchanged.
C22_ValidEntityIdRoundTrip ==
  /\ Called("validate_entity_id") =>
       \A k \in 1..Len(inp[1].args[1]) :
         LET s == inp[1].args[1]
             d == SubSeq(s, 1, k - 1)
             e == SubSeq(s, k + 1, Len(s))
         IN
         (/\ s[k] = "."
          /\ d # << >> /\ Range(d) \subseteq WordChars /\ Len(d) <= 50
          /\ e # << >> /\ Range(e) \subseteq WordChars /\ Len(e) <= 100) =>
           /\ exc[1] = NoError
           /\ ret[1] = Returned([domain |-> d, entity |-> e])
  /\ Called("sanitize_identifier") =>
       LET s == inp[1].args[1] IN
       (s # << >> /\ Range(s) \subseteq WordChars /\ Len(s) <= 100) =>
         /\ exc[1] = NoError
         /\ ret[1] = Returned(s)

\* the longest valid entity id was split into its two parts
C22_Witness ==
  /\ Called("validate_entity_id")
  /\ Len(inp[1].args[1]) = 151
  /\ exc[1] = NoError
  /\ Len(ret[1].val.domain) = 50
  /\ Len(ret[1].val.entity) = 100

\* C23: for every input that validate_entity_id accepts, the returned domain
\* and entity are non-empty, made of [A-Za-z0-9_] only (no dot, no newline,
\* no other character) and at most 50 and 100 characters long; every other
\* input, also one without '.', with an empty part or with a second '.', is
\* rejected with an error.
C23_AcceptedEntityIdIsClean ==
  Called("validate_entity_id") =>
    IF exc[1] = NoError
      THEN /\ ret[1].kind = "value"
           /\ ret[1].val.domain # << >>
           /\ ret[1].val.entity # << >>
           /\ Range(ret[1].val.domain) \subseteq WordChars
           /\ Range(ret[1].val.entity) \subseteq WordChars
           /\ Len(ret[1].val.domain) <= 50
           /\ Len(ret[1].val.entity) <= 100
      ELSE /\ exc[1].type = "ValueError"
           /\ ret[1] = Unset

\* C24: every value sanitize_identifier returns contains no character of
\* the dangerous-character set, has no leading or trailing whitespace, is
\* non-empty and is at most 100 characters long.
C24_SanitizedIdentifier ==
  (Called("sanitize_identifier") /\ exc[1] = NoError) =>
    LET v == ret[1].val IN
    /\ ret[1].kind = "value"
    /\ Range(v) \cap DANGEROUS_CHARS = {}
    /\ v # << >>
    /\ v[1] \notin Whitespace
    /\ v[Len(v)] \notin Whitespace
    /\ Len(v) <= 100

\* the dangerous characters that str.strip() leaves in place
PrintingDangerousChars ==
  {"\"", "'", Backquote, "\\", ";", "|", ">", "<", "&", "$", "(", ")", "[", "]", "{", "}"}

\* the dangerous characters that are whitespace
WhitespaceDangerousChars == {"\n", "\r", "\t"}

\* C25, as stated: for every non-empty string made of one character of the
\* dangerous-character set repeated, for each of the 19 characters,
\* sanitize_identifier fails with the empty-after-sanitization error.
C25_RepeatedDangerousCharEmptyAfter ==
  (/\ Called("sanitize_identifier")
   /\ \E c \in PrintingDangerousChars \cup WhitespaceDangerousChars :
        Range(inp[1].args[1]) = {c}) =>
    /\ exc[1] = ValueError(<<"V","a","l","u","e"," ","b","e","c","a","m","e"," ","e","m","p","t","y"," ","a","f","t","e","r"," ","s","a","n","i","t","i","z","a","t","i","o","n">>)
    /\ ret[1] = Unset

\* C25: for every non-empty string made of one character of the
\* dangerous-character set repeated, sanitize_identifier fails: with the
\* empty-after-sanitization error for each of the 16 characters that are
\* not whitespace, and with the empty-input error for newline, carriage
\* return and tab.
C25_RepeatedDangerousCharRejected ==
  Called("sanitize_identifier") =>
    /\ (\E c \in PrintingDangerousChars : Range(inp[1].args[1]) = {c}) =>
         /\ exc[1] = ValueError(<<"V","a","l","u","e"," ","b","e","c","a","m","e"," ","e","m","p","t","y"," ","a","f","t","e","r"," ","s","a","n","i","t","i","z","a","t","i","o","n">>)
         /\ ret[1] = Unset
    /\ (\E c \in WhitespaceDangerousChars : Range(inp[1].args[1]) = {c}) =>
         /\ exc[1] = ValueError(<<"V","a","l","u","e"," ","c","a","n","n","o","t"," ","b","e"," ","e","m","p","t","y">>)
         /\ ret[1] = Unset

\* three tabs were rejected as an empty input
C25_Witness ==
  /\ Called("sanitize_identifier")
  /\ inp[1].args[1] = <<"\t","\t","\t">>
  /\ exc[1] = ValueError(<<"V","a","l","u","e"," ","c","a","n","n","o","t"," ","b","e"," ","e","m","p","t","y">>)

\* the denylisted keywords that occur in s, in any letter case
KeywordsIn(s) == {k \in DenylistedKeywords : Contains(Lower(s), k)}

\* the dangerous-pattern error that names keyword k
DangerousPattern(k) ==
  ValueError(<<"P","o","t","e","n","t","i","a","l","l","y"," ","d","a","n","g","e","r","o","u","s"," ","p","a","t","t","e","r","n"," ","d","e","t","e","c","t","e","d"," ","i","n"," ","t","i","m","e"," ","r","a","n","g","e",":"," ">> \o k)

\* C21, as stated: for all pairs (start, stop) in which either side contains
\* a denylisted keyword as a substring, in any letter case and with any
\* surrounding text, validate_time_range fails with the dangerous-pattern
\* error naming a matched keyword; for all non-empty pairs without a
\* denylisted keyword it returns (start, stop) unchanged.
C21_KeywordPairRejected ==
  Called("validate_time_range") =>
    LET start == inp[1].args[1]
        stop == inp[1].args[2]
        found == KeywordsIn(start) \cup KeywordsIn(stop)
    IN
    /\ found # {} =>
         /\ \E k \in found : exc[1] = DangerousPattern(k)
         /\ ret[1] = Unset
    /\ (found = {} /\ start # << >> /\ stop # << >>) =>
         /\ exc[1] = NoError
         /\ ret[1] = Returned([range_start |-> start, range_stop |-> stop])

\* C21: for all pairs of non-empty strings (start, stop) in which either
\* side contains a denylisted keyword as a substring, in any letter case and
\* with any surrounding text, validate_time_range fails with the
\* dangerous-pattern error naming a matched keyword; for all non-empty pairs
\* without a denylisted keyword it returns (start, stop) unchanged.
C21_NonEmptyKeywordPairRejected ==
  Called("validate_time_range") =>
    LET start == inp[1].args[1]
        stop == inp[1].args[2]
        found == KeywordsIn(start) \cup KeywordsIn(stop)
    IN
    (start # << >> /\ stop # << >>) =>
      IF found # {}
        THEN /\ \E k \in found : exc[1] = DangerousPattern(k)
             /\ ret[1] = Unset
        ELSE /\ exc[1] = NoError
             /\ ret[1] = Returned([range_start |-> start, range_stop |-> stop])

\* a stop side with an upper-case URL scheme inside other text was rejected
\* although the start side is plain
C21_Witness ==
  /\ Called("validate_time_range")
  /\ inp[1].args[1] = <<"n","o","w","(",")">>
  /\ inp[1].args[2] = <<"x","H","T","T","P","S",":"," ","-","1","h"," ">>
  /\ exc[1] = DangerousPattern(<<"h","t","t","p","s",":">>)

\* the positions of s where sub occurs
Occurrences(s, sub) ==
  {i \in 1..(Len(s) - Len(sub) + 1) : SubSeq(s, i, i + Len(sub) - 1) = sub}

\* C26: check_for_injection_attempts returns true for every query with an
\* occurrence of from( that is not an occurrence of from(bucket: , in any
\* letter case, also when the query opens with from(bucket: and a second,
\* different from( comes later; it returns false for a query whose only
\* from( is from(bucket: and that has no other listed keyword.
C26_SecondFromDetected ==
  Called("check_for_injection_attempts") =>
    LET q == Lower(inp[1].args[1])
        froms == Occurrences(q, <<"f","r","o","m","(">>)
        bucketFroms == Occurrences(q, <<"f","r","o","m","(","b","u","c","k","e","t",":">>)
    IN
    /\ exc[1] = NoError
    /\ froms \ bucketFroms # {} => ret[1] = Returned(TRUE)
    /\ (/\ froms \subseteq bucketFroms
        /\ \A k \in Range(suspicious_keywords) : ~ Contains(q, k)) =>
         ret[1] = Returned(FALSE)

\* the image of one character under backslash escaping
EscapedChar(c) ==
  IF c = "\n" THEN <<"\\","n">>
  ELSE IF c = "\r" THEN <<"\\","r">>
  ELSE IF c = "\t" THEN <<"\\","t">>
  ELSE IF c \in {"\"", "'", "\\"} THEN <<"\\", c>>
  ELSE <<c>>

\* the escaped form of a string: the images of its characters, in order
EscapedForm(s) == Join([i \in 1..Len(s) |-> EscapedChar(s[i])])

RecognisedKeys == {"entity_id", "bucket", "range_start", "range_stop"}

ValidatedKeys == {"domain", "entity", "bucket", "range_start", "range_stop"}

\* the error of the first sub-validator that fails on params, in the order
\* entity_id, bucket, time range; NoError when none fails
FirstFailure(params) ==
  LET keys == DOMAIN params IN
  IF "entity_id" \in keys /\ ~ validate_entity_id(params.entity_id).ok
    THEN validate_entity_id(params.entity_id).err
  ELSE IF "bucket" \in keys /\ ~ validate_bucket_name(params.bucket).ok
    THEN validate_bucket_name(params.bucket).err
  ELSE IF {"range_start", "range_stop"} \subseteq keys
            /\ ~ validate_time_range(params.range_start, params.range_stop).ok
    THEN validate_time_range(params.range_start, params.range_stop).err
  ELSE NoError

\* C27: validate_query_parameters fails on the first failing sub-validator
\* in the order entity_id, bucket, time range, and then returns no mapping;
\* when it succeeds the result holds domain, entity, bucket, range_start and
\* range_stop only as their validators produced them, every extra string
\* field in escaped form and every extra field that is not a string
\* unchanged.
C27_ValidatedParameters ==
  Called("validate_query_parameters") =>
    LET params == inp[1].args[1]
        keys == DOMAIN params
    IN
    IF FirstFailure(params) # NoError
      THEN /\ exc[1] = FirstFailure(params)
           /\ ret[1] = Unset
      ELSE /\ exc[1] = NoError
           /\ ret[1].kind = "value"
           /\ LET r == ret[1].val
                  parts == validate_entity_id(params.entity_id).val
              IN
              /\ DOMAIN r \cap {"domain", "entity"} =
                   (IF "entity_id" \in keys THEN {"domain", "entity"} ELSE {})
              /\ "entity_id" \in keys =>
                   /\ r.domain = sanitize_identifier(parts.domain).val
                   /\ r.entity = sanitize_identifier(parts.entity).val
              /\ "bucket" \in DOMAIN r <=> "bucket" \in keys
              /\ "bucket" \in keys => r.bucket = params.bucket
              /\ DOMAIN r \cap {"range_start", "range_stop"} =
                   (IF {"range_start", "range_stop"} \subseteq keys
                      THEN {"range_start", "range_stop"} ELSE {})
              /\ {"range_start", "range_stop"} \subseteq keys =>
                   /\ r.range_start = params.range_start
                   /\ r.range_stop = params.range_stop
              /\ \A k \in keys \ (RecognisedKeys \cup ValidatedKeys) :
                   /\ k \in DOMAIN r
                   /\ r[k] = IF params[k].type = "str"
                               THEN PyStr(EscapedForm(params[k].val))
                               ELSE params[k]
              /\ DOMAIN r \subseteq ValidatedKeys \cup (keys \ RecognisedKeys)

\* the requests of the model whose configuration has no bucket key and
\* whose other inputs are valid
NoBucketRequests ==
  {rq \in Requests :
     /\ ~ rq.conf.has_bucket
     /\ validate_entity_id(rq.entity_id).ok
     /\ validate_time_range(rq.range_start, rq.range_stop).ok}

\* C28: when the configuration has no bucket key the default bucket
\* homeassistant is used: run_flux_query with otherwise valid inputs builds
\* and submits its query against bucket "homeassistant" and does not fail
\* on the bucket.
C28_DefaultBucket ==
  \A t \in QueryTasks :
    inp[t] \in NoBucketRequests =>
      /\ vparams[t].bucket = <<"h","o","m","e","a","s","s","i","s","t","a","n","t">>
      /\ exc[t].type # "ValueError"

\* InfluxDBQueryView.get: the records run_flux_query returns are handed to
\* self.json, which answers with status 200; the await is not enclosed in
\* any try block, so a failure of run_flux_query leaves the handler as the
\* raised exception and the handler builds no response of its own
InfluxDBQueryView_get(t) ==
  IF exc[t] = NoError
    THEN [kind |-> "response", status |-> 200, body |-> ret[t].val]
    ELSE [kind |-> "raised", raised |-> exc[t]]

\* C29: when run_flux_query fails, the HTTP handler answers with a response:
\* a validation-class failure or an injection detection (ValueError) gets a
\* client error status (400..499) whose body carries the error message, and
\* every other failure (backend, query) gets a server error status (500..599).
C29_FailuresAnsweredByClass ==
  \A t \in QueryTasks :
    (pc[t] = "done" /\ exc[t] # NoError) =>
      LET answer == InfluxDBQueryView_get(t) IN
      /\ answer.kind = "response"
      /\ IF exc[t].type = "ValueError"
           THEN answer.status \in 400..499 /\ answer.body = exc[t].msg
           ELSE answer.status \in 500..599

\* C30: a first query submission that raises a generic exception with the
\* timeout text (not a backend InfluxDBError) is a transient failure the
\* call recovers from: while retries are allowed the call does not end on
\* it, neither in execute_query nor in run_flux_query, so that the query is
\* submitted a second time and a successful second submission is returned.
C30_GenericTimeoutIsRetried ==
  \A t \in QueryTasks :
    (/\ subs[t].n = 1
     /\ subs[t].ok_at = 0
     /\ subs[t].last_err = Exception(MsgTimeout)
     /\ max_retries[mgr[t]] >= 1) =>
      /\ ~ eq_out[t].done
      /\ pc[t] # "done"

(***************************************************************************)
(* Concurrency and lifecycle of the pool.                                  *)
(***************************************************************************)
\* the step makes a client.ping() on behalf of task t: the ping of an
\* acquire, or the test ping of a client created by _initialize_pool
PingStep(t) ==
  \/ pc[t] = "gc_ping" /\ pc'[t] # "gc_ping"
  \/ /\ pc[t] = "init_loop"
     /\ hist'.init_ok # hist.init_ok \/ "ping" \in (ops'[t] \ ops[t])

\* the step makes a query submission on behalf of task t
SubmitStep(t) == subs'[t].n = subs[t].n + 1

\* C31: no step that pings a client or submits a query on behalf of a task
\* is taken while the lock of the task's pool is held, by the task itself
\* or by another one; this covers the initialisation of the pool.
C31_NoBackendIOUnderLock ==
  [][\A t \in Tasks :
       (PingStep(t) \/ SubmitStep(t)) => lock[mgr[t]] = 0]_vars

\* task t is in the bounded wait of its acquire: the idle queue is empty
\* and  self._connection_pool.get(timeout=5)  has not returned yet
InBoundedWait(t) == pc[t] = "gc_get" /\ connection_pool[mgr[t]] = << >>

\* task t is in the backoff sleep before a retry
InBackoff(t) == pc[t] = "backoff"

\* C32: the bounded wait of an acquire and the retry backoff are suspension
\* points: a task that waits for an idle handle or backs off does not keep
\* the event loop, so that other requests can take steps (and release a
\* handle to the waiter) in the meantime.
C32_WaitsAreSuspensionPoints ==
  \A t \in Tasks :
    (InBoundedWait(t) \/ InBackoff(t)) => running # t

\* the handles the scopes of task t have checked out and not yet released
CheckedOut(t) == {frames[t][i].client : i \in 1..Len(frames[t])} \ {0}

\* C33: at every moment one execute_query call, its retries included, holds
\* at most one checked-out handle: the handle of a failed attempt has been
\* released before the retry acquires a fresh one.
C33_AtMostOneHandlePerCall ==
  \A t \in QueryTasks : Cardinality(CheckedOut(t)) <= 1

\* the handles in the idle queue of manager m
IdleHandles(m) == Range(connection_pool[m])

\* C34: closed is a terminal state: under any interleaving of requests with
\* cleanup, a handle on which close() has been called is never a member of
\* an idle pool.
C34_ClosedNeverIdle ==
  \A m \in Managers : IdleHandles(m) \cap closed = {}

\* cleanup_connections has torn manager m down (cleanup returned and the
\* global was reset) and no call that uses m is still in flight
TornDown(m) ==
  /\ m \in hist.cleaned
  /\ connection_manager # m
  /\ \A t \in Tasks : mgr[t] = m => pc[t] = "done"

\* C35: no connection leaks past teardown: once cleanup_connections has
\* completed and every request that was in flight at that time has finished
\* (one that waited in a retry backoff included), every handle the
\* torn-down manager still refers to, idle or active, is closed.
C35_NoLeakPastTeardown ==
  \A m \in Managers :
    TornDown(m) => (IdleHandles(m) \cup active_connections[m]) \subseteq closed

(***************************************************************************)
(* escape_value and _should_retry.                                         *)
(***************************************************************************)
\* C36: escape_value escapes character by character: for every input string
\* the output is the concatenation, in order, of the images of its
\* characters, where double quote, single quote, backslash, newline,
\* carriage return and tab map to one backslash followed by the escape
\* character and every other character maps to itself.
C36_EscapeCharByChar ==
  Called("escape_value") =>
    ret[1] = Returned(EscapedForm(inp[1].args[1]))

\* keyword k occurs in msg at position i, letter case ignored
OccursAt(msg, k, i) ==
  /\ i + Len(k) - 1 <= Len(msg)
  /\ \A j \in 1..Len(k) : LowerChar(msg[i + j - 1]) = k[j]

\* C37: _should_retry returns true exactly when the message of the error
\* contains, letter case ignored, at least one of connection, timeout,
\* network, unavailable, temporary, 502, 503, 504, and false otherwise.
C37_ShouldRetryExactlyOnKeyword ==
  Called("_should_retry") =>
    LET msg == inp[1].args[1] IN
    ret[1] = Returned(\E k \in RetryKeywords : \E i \in 1..Len(msg) : OccursAt(msg, k, i))

\* a gateway status code in the middle of other text is found retryable
C37_Witness ==
  /\ Called("_should_retry")
  /\ inp[1].args[1] = <<"x","5","0","4"," ","-","1","h"," ">>
  /\ ret[1] = Returned(TRUE)

(***************************************************************************)
(* The identifier positions of the submitted query.                        *)
(***************************************************************************)
\* the text of q after the first occurrence of marker (q contains marker)
After(q, marker) ==
  LET i == CHOOSE i \in Occurrences(q, marker) : \A j \in Occurrences(q, marker) : i <= j
  IN SubSeq(q, i + Len(marker), Len(q))

\* the string literal that s opens with: the characters before the first
\* double quote of s (s contains one)
Literal(s) == SubSeq(s, 1, IndexOf(s, "\"") - 1)

\* the value interpolated in q right after marker, up to the closing quote
Interpolated(q, marker) == Literal(After(q, marker))

\* C38: for every entity_id, in the query that run_flux_query is about to
\* submit the values interpolated as _measurement and as entity_id are made
\* of characters of [A-Za-z0-9_] only, and each is closed by the quote of
\* the template: the text that follows the measurement is the entity_id
\* comparison and the text that follows the entity is the _field comparison
\* that ends the query.
C38_IdentifierPositionsAreWordChars ==
  (Called("run_flux_query") /\ ret[1] # Unset) =>
    LET q == ret[1].val
        m == <<"r","[","\"","_","m","e","a","s","u","r","e","m","e","n","t","\"","]"," ","=","="," ","\"">>
        e == <<"\""," ","a","n","d"," ","r","[","\"","e","n","t","i","t","y","_","i","d","\"","]"," ","=","="," ","\"">>
        f == <<"\""," ","a","n","d"," ","r","[","\"","_","f","i","e","l","d","\"","]"," ","=","="," ","\"","v","a","l","u","e","\"",")">>
        measurement == Interpolated(q, m)
        rest == SubSeq(After(q, m), Len(measurement) + 1, Len(After(q, m)))
        entity == Interpolated(rest, e)
    IN
    /\ Occurrences(q, m) # {}
    /\ HasPrefix(rest, e)
    /\ SubSeq(rest, Len(e) + Len(entity) + 1, Len(rest)) = f
    /\ Range(measurement) \cup Range(entity) \subseteq WordChars

\* an entity_id that ends with a newline passes validate_entity_id, and the
\* query is generated with the entity without the newline
C38_Witness ==
  /\ Called("run_flux_query")
  /\ inp[1].args[1] = <<"a", ".", "Z", "\n">>
  /\ ret[1] # Unset
  /\ Interpolated(ret[1].val, <<"r","[","\"","e","n","t","i","t","y","_","i","d","\"","]"," ","=","="," ","\"">>) = <<"Z">>

====
